---- MODULE Spec2Model ----
(***************************************************************************)
(* Battle-queue coordinator of mnstrv2server                               *)
(* (src/src/websocket/battle_queue/handlers.rs and the models it uses).    *)
(*                                                                         *)
(* One step of the model is one complete run of a connection handler's     *)
(* reaction to one event: the opening of a connection, or one inbound      *)
(* client message.  The resource store (PostgreSQL behind the database     *)
(* macros) is the tables statuses, battles, mnstrs and logs; every store   *)
(* call a handler makes may fail, which the handlers' `fail` input         *)
(* selects.  Identifiers the code draws as UUIDs are drawn from counters.  *)
(* Display names are functions of the user id and are left out.            *)
(***************************************************************************)
EXTENDS Integers, Sequences, FiniteSets, TLC

\* ------------------------------------------------------------------ bounds
MaxConns == 1
MaxStatusRows == 3
MaxBattles == 2
MaxAttacks == 2
MaxFaultyAttacks == 1
MaxLedger == 5
MaxXpLevel == 3
MaxTopic == 3

\* ------------------------------------------------------- program constants
DiceSides == 20
SpeedDivisor == 20
ByteMax == 255

\* ------------------------------------------------------------------ domain
None == "none"
Users == {"u1", "u2"}
MnstrIds == {"m1", "m2"}

VARIABLES
    conns,        \* user -> number of open websocket connections (event loops)
    statuses,     \* table battle_statuses: the PresenceRecords
    nStatus,      \* rows ever inserted into battle_statuses (next id - 1)
    battles,      \* table battles
    mnstrs,       \* table mnstrs: mnstr id -> row
    logs,         \* table battle_logs, in insertion order
    paid,         \* settlements whose rewards were applied, per battle id
    gameData,     \* battle id -> GameData last published for it (what clients echo)
    users,        \* table users: user id -> experience level and points
    ledger,       \* table transactions, in insertion order
    published,    \* envelopes the last handler run published on the broker topic
    last,         \* what the last handler run was and how it went
    inflight,     \* user -> the MnstrChosen run of that user's handler: where it is
                  \* and the Battle row it read
    ping,         \* user -> where the heartbeat task of the user's latest connection
                  \* is (the tasks share nothing, one per user is followed)
    sub,          \* user -> the broker subscription of the user's connection: what the
                  \* broker holds for it, what its forwarder took, what its internal
                  \* channel holds and what its loop yielded to the client
    generated     \* the build script's two vectors `levels`, as far as they are built

\* the state of the tasks that run beside or inside a handler
taskVars == <<inflight, ping, sub, generated>>

vars == <<conns, statuses, nStatus, battles, mnstrs, logs, paid, users, ledger, gameData,
          published, last, inflight, ping, sub, generated>>

\* ------------------------------------------------------------ data shapes
NoMnstr ==
    [id |-> None, user_id |-> None, current_health |-> 0, current_attack |-> 0,
     current_defense |-> 0, current_speed |-> 0, current_intelligence |-> 0,
     current_level |-> 0, current_experience |-> 0,
     max_health |-> 0, max_attack |-> 0, max_defense |-> 0, max_speed |-> 0,
     max_intelligence |-> 0, current_magic |-> 0, max_magic |-> 0,
     qr_coins_byte |-> 0, qr_multiplier_byte |-> 0]

NoGameData ==
    [battle_id |-> 0, challenger_mnstr |-> NoMnstr, opponent_mnstr |-> NoMnstr,
     turn_user_id |-> None, winner_id |-> None,
     winner_xp_awarded |-> 0, winner_coins_awarded |-> 0,
     loser_xp_awarded |-> 0, loser_coins_awarded |-> 0]

\* no envelope
NoEnvelope ==
    [user_id |-> None, channel |-> "Lobby", action |-> "none", data_action |-> "none",
     kind |-> "none", data |-> NoGameData]

NoLast ==
    [op |-> "Init", user |-> None, a |-> None, b |-> None, battle |-> 0, ok |-> TRUE,
     fail |-> "none", attacker |-> None, defender |-> None,
     cmp |-> 0, winner |-> None, terminal |-> FALSE, fresh |-> FALSE,
     arg |-> 0, res |-> 0, mnstr |-> None, yielded |-> <<>>,
     list |-> {}, fanned |-> FALSE, sent |-> NoGameData,
     queue |-> NoEnvelope]

\* a subscription on which nothing was published yet
NoSub == [topic |-> <<>>, got |-> <<>>, rx |-> <<>>, out |-> <<>>]

\* a handler that has not started a MnstrChosen
NoRun == [pc |-> "idle", battle_id |-> 0, mnstr_id |-> None, battle |-> None]

\* BattleStatus::new, as insert_initial_status_and_notify calls it
NewStatus(id, user_id) ==
    [id |-> id, user_id |-> user_id, opponent_id |-> None, battle_id |-> 0,
     status |-> "InQueue"]

NoStatus ==
    [id |-> 0, user_id |-> None, opponent_id |-> None, battle_id |-> 0,
     status |-> "InQueue"]

\* build_error: an envelope with the given coordination action and no GameData
build_error(user_id, channel, action, data_action) ==
    [user_id |-> user_id, channel |-> channel, action |-> action,
     data_action |-> data_action, kind |-> "error", data |-> NoGameData]

\* build_success
build_success(user_id, channel, action, data_action) ==
    [user_id |-> user_id, channel |-> channel, action |-> action,
     data_action |-> data_action, kind |-> "message", data |-> NoGameData]

\* ---------------------------------------------------------------- economy
\* build.rs, generate_level_xp: the player table, XP_FOR_LEVEL[0..100]
LevelXpTable ==
 <<
    0, 100, 300, 548, 822, 1114, 1419, 1735, 2059, 2391, 2729, 3073, 3422,
    3776, 4134, 4496, 4862, 5231, 5603, 5978, 6356, 6737, 7120, 7506, 7894,
    8284, 8676, 9070, 9466, 9864, 10264, 10666, 11069, 11474, 11880, 12288,
    12697, 13108, 13520, 13934, 14349, 14765, 15182, 15601, 16021, 16442,
    16864, 17287, 17711, 18136, 18562, 18989, 19417, 19846, 20276, 20707,
    21139, 21572, 22006, 22441, 22877, 23313, 23750, 24188, 24627, 25067,
    25507, 25948, 26390, 26833, 27276, 27720, 28165, 28610, 29056, 29503,
    29950, 30398, 30847, 31296, 31746, 32197, 32648, 33100, 33552, 34005,
    34459, 34913, 35368, 35823, 36279, 36735, 37192, 37650, 38108, 38567,
    39026, 39486, 39946, 40407, 40868
 >>

\* build.rs, generate_mnstr_xp: the monster table, XP_FOR_LEVEL[0..100]
MnstrXpTable ==
 <<
    50, 67, 86, 106, 127, 149, 171, 194, 217, 241, 265, 290, 315, 340, 366,
    392, 418, 445, 472, 499, 526, 554, 582, 610, 638, 667, 696, 725, 754,
    783, 812, 842, 872, 902, 932, 962, 992, 1022, 1053, 1084, 1115, 1146,
    1177, 1208, 1239, 1270, 1302, 1334, 1366, 1398, 1430, 1462, 1494, 1526,
    1558, 1590, 1623, 1656, 1689, 1722, 1755, 1788, 1821, 1854, 1887, 1920,
    1953, 1986, 2019, 2053, 2087, 2121, 2155, 2189, 2223, 2257, 2291, 2325,
    2359, 2393, 2427, 2461, 2495, 2529, 2564, 2599, 2634, 2669, 2704, 2739,
    2774, 2809, 2844, 2879, 2914, 2949, 2984, 3019, 3054, 3089, 3124
 >>

LastLevelIndex == Len(LevelXpTable) - 1

\* build.rs: the loops run up to index 100, each table has 101 entries
TableLen == 101

\* Arithmetic on natural numbers too large for an i32, held as their base-10000
\* digits, lowest first.  digits * factor + carry, as the digits of the same
\* length and the carry out of them
RECURSIVE TimesCarry(_, _, _)
TimesCarry(digits, factor, carry) ==
    IF Len(digits) = 0 THEN [digits |-> <<>>, carry |-> carry]
    ELSE IF Len(digits) = 1
    THEN LET v == digits[1] * factor + carry
         IN [digits |-> <<v % 10000>>, carry |-> v \div 10000]
    ELSE LET half == Len(digits) \div 2
             low == TimesCarry(SubSeq(digits, 1, half), factor, carry)
             high == TimesCarry(SubSeq(digits, half + 1, Len(digits)), factor,
                                low.carry)
         IN [digits |-> low.digits \o high.digits, carry |-> high.carry]

\* digits * factor, for a factor below 100000
TimesSmall(digits, factor) ==
    LET r == TimesCarry(digits, factor, 0)
    IN r.digits \o (IF r.carry = 0 THEN <<>>
                    ELSE IF r.carry < 10000 THEN <<r.carry>>
                    ELSE <<r.carry % 10000, r.carry \div 10000>>)

\* a + b + carry for a and b of the same length
RECURSIVE PlusCarry(_, _, _)
PlusCarry(a, b, carry) ==
    IF Len(a) = 0 THEN [digits |-> <<>>, carry |-> carry]
    ELSE IF Len(a) = 1
    THEN LET v == a[1] + b[1] + carry
         IN [digits |-> <<v % 10000>>, carry |-> v \div 10000]
    ELSE LET half == Len(a) \div 2
             low == PlusCarry(SubSeq(a, 1, half), SubSeq(b, 1, half), carry)
             high == PlusCarry(SubSeq(a, half + 1, Len(a)),
                               SubSeq(b, half + 1, Len(a)), low.carry)
         IN [digits |-> low.digits \o high.digits, carry |-> high.carry]

Zeros(n) == [i \in 1..n |-> 0]

Plus(a, b) ==
    LET n == IF Len(a) > Len(b) THEN Len(a) ELSE Len(b)
        r == PlusCarry(a \o Zeros(n - Len(a)), b \o Zeros(n - Len(b)), 0)
    IN r.digits \o (IF r.carry = 0 THEN <<>> ELSE <<r.carry>>)

RECURSIVE Times(_, _)
Times(a, b) ==
    IF Len(b) = 1 THEN TimesSmall(a, b[1])
    ELSE LET half == Len(b) \div 2
         IN Plus(Times(a, SubSeq(b, 1, half)),
                 Zeros(half) \o Times(a, SubSeq(b, half + 1, Len(b))))

\* without leading zero digits
RECURSIVE Strip(_)
Strip(a) ==
    IF Len(a) > 1 /\ a[Len(a)] = 0 THEN Strip(SubSeq(a, 1, Len(a) - 1)) ELSE a

\* x to the power k, by squaring
RECURSIVE PowerDigits(_, _)
PowerDigits(x, k) ==
    IF k = 0 THEN <<1>>
    ELSE LET h == PowerDigits(x, k \div 2)
             sq == Strip(Times(h, h))
         IN IF k % 2 = 0 THEN sq ELSE Strip(TimesSmall(sq, x))

\* the number of decimal digits of a positive integer
RECURSIVE DecimalLen(_)
DecimalLen(x) == IF x < 10 THEN 1 ELSE 1 + DecimalLen(x \div 10)

DecimalLenOfDigits(digits) == 4 * (Len(digits) - 1) + DecimalLen(digits[Len(digits)])

RECURSIVE IsPowerOfTen(_)
IsPowerOfTen(x) == x = 1 \/ (x > 1 /\ x % 10 = 0 /\ IsPowerOfTen(x \div 10))

\* ((x as f64).log10() * scale).ceil() as i32, for scale 10 or 100.  For x >= 1 it
\* is the least n with 10^n >= x^scale: scale times the exponent when x is a power
\* of ten, otherwise the number of decimal digits of x^scale.  log10(0) is
\* -infinity, which the cast saturates to i32::MIN; log10 of a negative number is
\* NaN, which the cast turns into 0.
CeilLog10Times(x, scale) ==
    IF x = 0 THEN -2147483647 - 1
    ELSE IF x < 0 THEN 0
    ELSE IF IsPowerOfTen(x) THEN scale * (DecimalLen(x) - 1)
    ELSE DecimalLenOfDigits(PowerDigits(x, scale))

\* a variant of the step that pushes the increment alone
PushedXpIncrementOnly(previous_xp, scale) == CeilLog10Times(previous_xp, scale)

\* build.rs, the body of both loops: previous_xp + ceil(log10(previous_xp) * scale)
PushedXp(previous_xp, scale) == previous_xp + CeilLog10Times(previous_xp, scale)

\* XP_FOR_LEVEL[i] of models::generated::level_xp
XP_FOR_LEVEL(i) == LevelXpTable[i + 1]

\* XP_FOR_LEVEL[i] of models::generated::mnstr_xp
MNSTR_XP_FOR_LEVEL(i) == MnstrXpTable[i + 1]

\* User::new
NewUser == [experience_level |-> 0, experience_points |-> 0]

\* User::update_xp, the body of the while loop: the points kept by one level-up,
\* given the overage before and after the next threshold is subtracted
PointsAfterLevelUp(remaining_overage, next_overage) ==
    IF next_overage < 0 THEN 0 ELSE remaining_overage

\* User::update_xp, the while loop.  Indexing XP_FOR_LEVEL past its last entry
\* panics: nothing is persisted.
RECURSIVE LevelUp(_, _, _)
LevelUp(experience_level, experience_points, remaining_overage) ==
    IF remaining_overage < 0
    THEN [panic |-> FALSE, experience_level |-> experience_level,
          experience_points |-> experience_points]
    ELSE IF experience_level + 2 > LastLevelIndex
    THEN [panic |-> TRUE, experience_level |-> experience_level,
          experience_points |-> experience_points]
    ELSE LET next_overage == remaining_overage - XP_FOR_LEVEL(experience_level + 2)
         IN LevelUp(experience_level + 1,
                    PointsAfterLevelUp(remaining_overage, next_overage),
                    next_overage)

\* User::update_xp up to the loop: the threshold of the next level
XpToNextLevel(experience_level) ==
    IF experience_level < LastLevelIndex THEN XP_FOR_LEVEL(experience_level + 1)
    ELSE XP_FOR_LEVEL(LastLevelIndex)

\* a variant of update_xp that enters the loop without subtracting the threshold
update_xp_no_threshold(user, xp) ==
    LevelUp(user.experience_level, user.experience_points + xp,
            user.experience_points + xp)

\* User::update_xp(xp) on a user row: the row afterwards, or a panic
update_xp(user, xp) ==
    LevelUp(user.experience_level, user.experience_points + xp,
            user.experience_points + xp - XpToNextLevel(user.experience_level))

\* the row User::update_xp persists: unchanged when it panicked
UserAfterXp(user, xp) ==
    LET r == update_xp(user, xp) IN
    IF r.panic THEN user
    ELSE [user EXCEPT !.experience_level = r.experience_level,
                      !.experience_points = r.experience_points]

\* a variant of the last step of Mnstr::coins without the floor
CoinsNoFloor(c) == c

\* Mnstr::coins, last step: the floor of 5
CoinsFloor(c) == IF c < 5 THEN 5 ELSE c

Min(a, b) == IF a < b THEN a ELSE b

\* a variant of Mnstr::coins that scales by the hundredths of the multiplier
coinsScaledByHundredths(coins_byte, multiplier_hash_byte) ==
    LET c == IF coins_byte <= 0 THEN 5 ELSE coins_byte
        multiplier == IF multiplier_hash_byte <= 0 THEN 10 ELSE multiplier_hash_byte
        scaled == (c * multiplier) \div 100
    IN CoinsFloor(
         IF multiplier >= 251 THEN Min(scaled + 1000, 2000)
         ELSE IF multiplier >= 242 THEN Min(scaled + 400, 750)
         ELSE IF multiplier >= 216 THEN Min(scaled + 150, 400)
         ELSE LET low == IF multiplier >= 85 THEN scaled ELSE c
              IN IF low > 25 THEN low \div 10 ELSE low)

\* Mnstr::coins, given the two bytes of the SHA-256 digest of the QR string it reads
coins(coins_byte, multiplier_hash_byte) ==
    LET c == IF coins_byte <= 0 THEN 5 ELSE coins_byte
        multiplier == IF multiplier_hash_byte <= 0 THEN 10 ELSE multiplier_hash_byte
        scaled == c * (multiplier \div 100)
    IN CoinsFloor(
         IF multiplier >= 251 THEN Min(scaled + 1000, 2000)
         ELSE IF multiplier >= 242 THEN Min(scaled + 400, 750)
         ELSE IF multiplier >= 216 THEN Min(scaled + 150, 400)
         ELSE LET low == IF multiplier >= 85 THEN scaled ELSE c
              IN IF low > 25 THEN low \div 10 ELSE low)

MnstrCoins(mnstr) == coins(mnstr.qr_coins_byte, mnstr.qr_multiplier_byte)

\* a variant of the Transaction of Wallet::add_coins left as Transaction::new made it
CreditEntryAsNew(wallet_id, amount) ==
    [wallet_id |-> wallet_id, transaction_type |-> "credit",
     transaction_amount |-> 0, transaction_status |-> "preparing"]

\* Wallet::add_coins: the Transaction it creates
CreditEntry(wallet_id, amount) ==
    [wallet_id |-> wallet_id, transaction_type |-> "credit",
     transaction_amount |-> amount, transaction_status |-> "completed"]

\* Wallet::get_coins: the sum of transaction_amount over the wallet's transactions
RECURSIVE get_coins(_, _)
get_coins(table, wallet_id) ==
    IF table = <<>> THEN 0
    ELSE (IF Head(table).wallet_id = wallet_id THEN Head(table).transaction_amount ELSE 0)
         + get_coins(Tail(table), wallet_id)

\* Mnstr::update_xp: the leveling procedure applied to a monster, with the
\* monster table
RECURSIVE MnstrLevelUp(_, _)
MnstrLevelUp(level, points) ==
    IF level + 1 > LastLevelIndex \/ points <= MNSTR_XP_FOR_LEVEL(level + 1)
    THEN [current_level |-> level, current_experience |-> points]
    ELSE MnstrLevelUp(level + 1, points - MNSTR_XP_FOR_LEVEL(level + 1))

MnstrAfterXp(mnstr, xp) ==
    LET r == MnstrLevelUp(mnstr.current_level, mnstr.current_experience + xp) IN
    [mnstr EXCEPT !.current_level = r.current_level,
                  !.current_experience = r.current_experience]

\* ------------------------------------------------------------------- Init
InitMnstrs ==
    [m \in MnstrIds |->
        IF m = "m1"
        THEN [id |-> "m1", user_id |-> "u1", current_health |-> 12, current_attack |-> 10,
              current_defense |-> 4, current_speed |-> 20, current_intelligence |-> 20,
              current_level |-> 0, current_experience |-> 0,
              max_health |-> 12, max_attack |-> 10, max_defense |-> 4, max_speed |-> 20,
              max_intelligence |-> 20, current_magic |-> 6, max_magic |-> 6,
              qr_coins_byte |-> 200, qr_multiplier_byte |-> 120]
        ELSE [id |-> "m2", user_id |-> "u2", current_health |-> 3, current_attack |-> 10,
              current_defense |-> 5, current_speed |-> 40, current_intelligence |-> 0,
              current_level |-> 1, current_experience |-> 0,
              max_health |-> 3, max_attack |-> 10, max_defense |-> 5, max_speed |-> 40,
              max_intelligence |-> 0, current_magic |-> 2, max_magic |-> 2,
              qr_coins_byte |-> 40, qr_multiplier_byte |-> 252]]

\* Mnstr::create: the owner of a new monster is given XP_FOR_LEVEL[level] of the
\* monster table as experience and the monster's coin value as a credit
InitUsers == [u \in Users |-> UserAfterXp(NewUser, MNSTR_XP_FOR_LEVEL(0))]

InitLedger ==
    <<CreditEntry("u1", MnstrCoins(InitMnstrs["m1"])),
      CreditEntry("u2", MnstrCoins(InitMnstrs["m2"]))>>

Init ==
    /\ conns = [u \in Users |-> 0]
    /\ statuses = {}
    /\ nStatus = 0
    /\ battles = {}
    /\ mnstrs = InitMnstrs
    /\ logs = <<>>
    /\ paid = [b \in 1..MaxBattles |-> 0]
    /\ users = InitUsers
    /\ ledger = InitLedger
    /\ gameData = [b \in 1..MaxBattles |-> NoGameData]
    /\ published = <<>>
    /\ last = NoLast
    /\ inflight = [u \in Users |-> NoRun]
    /\ generated = [level |-> <<>>, mnstr |-> <<>>]
    /\ ping = [u \in Users |-> "none"]
    /\ sub = [u \in Users |-> NoSub]

\* ------------------------------------------------- presence: connect, leave
\* insert_initial_status_and_notify: BattleStatus::create is a plain INSERT of a
\* new row with a fresh id; Joined on success, Error on a store error.
insert_initial_status_and_notify(user_id, fail, op) ==
    /\ IF fail = "none"
       THEN /\ nStatus < MaxStatusRows
            /\ statuses' = statuses \cup {NewStatus(nStatus + 1, user_id)}
            /\ nStatus' = nStatus + 1
            /\ published' = <<build_success(user_id, "Lobby", "Joined", "Connect")>>
       ELSE /\ UNCHANGED <<statuses, nStatus>>
            /\ published' = <<build_error(user_id, "Lobby", "Error", "Connect")>>
    /\ last' = [NoLast EXCEPT !.op = op, !.user = user_id, !.ok = (fail = "none"),
                              !.fail = fail]

\* the tokens a client may present: none, one no session has, the token of an
\* expired session and the token of a live session
Tokens == {"", "unknown", "expired", "valid"}

\* Session::find_one_by_token: a session row carries the token
find_one_by_token(token) == token \in {"expired", "valid"}

\* validate_session: an error for a session past its expiry
validate_session(token) == token = "expired"

\* a variant of verify_session_token that only looks the session up
verify_session_token_found(token) == find_one_by_token(token)

\* verify_session_token: the session is found and validates
verify_session_token(token) == find_one_by_token(token) /\ ~validate_session(token)

\* what stops battle_queue before the loop on a valid session: User::find_one
\* fails (user_name stays None and the unwrap in insert_initial_status_and_notify
\* panics), or the broker connection cannot be opened
OpenFails == {"find_user", "redis"}

\* battle_queue, valid session: the connection's loop starts after the status insert
OpenConnection(u, fail) ==
    /\ conns[u] < MaxConns
    /\ IF fail \in OpenFails
       THEN /\ published' = <<>>
            /\ last' = [NoLast EXCEPT !.op = "Open", !.user = u, !.ok = FALSE,
                                      !.fail = fail,
                                      !.yielded =
                                          IF fail = "redis"
                                          THEN <<build_error(None, "Lobby", "Error",
                                                             "Connect")>>
                                          ELSE <<>>]
            /\ UNCHANGED <<conns, statuses, nStatus, ping>>
       ELSE /\ conns' = [conns EXCEPT ![u] = @ + 1]
            /\ insert_initial_status_and_notify(u, fail, "Open")
            /\ ping' = [ping EXCEPT ![u] = "ping"]
    /\ UNCHANGED <<generated, inflight, sub, battles, mnstrs, logs, paid, users, ledger, gameData>>

\* battle_queue, session None: one Error envelope to the client, then return
RejectConnection(token) ==
    /\ published' = <<>>
    /\ last' = [NoLast EXCEPT !.op = "Reject", !.ok = FALSE, !.fail = "session",
                              !.yielded = <<build_error(None, "Lobby", "Error",
                                                        "Connect")>>]
    /\ UNCHANGED <<taskVars, conns, statuses, nStatus, battles, mnstrs, logs, paid, users,
                   ledger, gameData>>

\* battle_queue: a client connects to /battle_queue/<token>; u is the user of the
\* token's session when there is one
battle_queue(u, token, fail) ==
    IF verify_session_token(token) THEN OpenConnection(u, fail)
    ELSE RejectConnection(token)

\* handle_incoming_ws_message, data action Connect
ClientConnect(u, fail) ==
    /\ conns[u] > 0
    /\ insert_initial_status_and_notify(u, fail, "Connect")
    /\ UNCHANGED <<taskVars, conns, battles, mnstrs, logs, paid, users, ledger, gameData>>

\* on_player_left: DELETE FROM battle_statuses WHERE user_id = .., best effort,
\* then a Left envelope whatever the delete did
on_player_left(user_id, fail) ==
    /\ statuses' = IF fail = "none" THEN {r \in statuses : r.user_id # user_id}
                   ELSE statuses
    /\ published' = <<build_error(user_id, "Lobby", "Left", "Left")>>
    /\ last' = [NoLast EXCEPT !.op = "Left", !.user = user_id, !.ok = (fail = "none"),
                              !.fail = fail]

\* battle_queue loop: an empty client message
ClientEmpty(u, fail) ==
    /\ conns[u] > 0
    /\ on_player_left(u, fail)
    /\ UNCHANGED <<taskVars, conns, nStatus, battles, mnstrs, logs, paid, users, ledger, gameData>>

\* battle_queue loop: ws.next() yields an error; build_battle_queue returns Err and
\* handle_incoming_ws_message runs on_player_left
StreamError(u, fail) ==
    /\ conns[u] > 0
    /\ on_player_left(u, fail)
    /\ UNCHANGED <<taskVars, conns, nStatus, battles, mnstrs, logs, paid, users, ledger, gameData>>

\* the non-empty messages build_battle_queue cannot turn into an envelope: text
\* that is not the JSON of an envelope (a close frame with a reason is read as its
\* reason text), and a binary message that is not text
UnparsableKinds == {"text", "binary"}

\* handle_incoming_ws_message on such a message: into_text fails on the binary one
\* (Err arm, on_player_left); for text build_battle_queue returns Ok(build_error)
\* with data action Error, which the default arm publishes
ClientUnparsable(u, kind, fail) ==
    /\ conns[u] > 0
    /\ IF kind = "binary"
       THEN on_player_left(u, fail)
       ELSE /\ fail = "none"
            /\ published' = <<build_error(None, "Lobby", "Error", "Error")>>
            /\ last' = [NoLast EXCEPT !.op = "Unparsable", !.user = u]
            /\ UNCHANGED statuses
    /\ UNCHANGED <<taskVars, conns, nStatus, battles, mnstrs, logs, paid, users, ledger, gameData>>

\* handle_incoming_ws_message, the arms that return None at once
SilentDataActions == {"InGameAction", "Defend", "Magic"}

\* the data actions of BattleQueueDataAction no arm names: they fall to the
\* default arm
DefaultDataActions ==
    {"Cancel", "Ready", "Unready", "Start", "Watch", "Left", "Error", "Challenge", "Reject"}

\* the envelopes a client can send with such a data action: the fields are the
\* client's choice
ClientEnvelopes(data_action) ==
    {[user_id |-> w, channel |-> channel, action |-> data_action,
      data_action |-> data_action, kind |-> "message", data |-> NoGameData] :
        w \in Users, channel \in {"Lobby", "Battle"}}

\* a variant of the dispatch in which every arm without a handler publishes
OtherPublishedAlways(queue) == <<queue>>

\* what the arm of the envelope's data action publishes: nothing for InGameAction,
\* Defend and Magic, the envelope as parsed for the default arm
OtherPublished(queue) ==
    IF queue.data_action \in SilentDataActions THEN <<>> ELSE <<queue>>

\* handle_incoming_ws_message on an envelope whose data action has no handler
ClientOther(u, queue) ==
    /\ conns[u] > 0
    /\ queue.data_action \in SilentDataActions \cup DefaultDataActions
    /\ published' = OtherPublished(queue)
    /\ last' = [NoLast EXCEPT !.op = "Other", !.user = u, !.queue = queue]
    /\ UNCHANGED <<taskVars, conns, statuses, nStatus, battles, mnstrs, logs, paid, users,
                   ledger, gameData>>

\* battle_queue loop: ws.next() yields None, the loop breaks
StreamEnd(u) ==
    /\ conns[u] > 0
    /\ conns' = [conns EXCEPT ![u] = @ - 1]
    /\ published' = <<>>
    /\ last' = [NoLast EXCEPT !.op = "StreamEnd", !.user = u]
    /\ UNCHANGED <<taskVars, statuses, nStatus, battles, mnstrs, logs, paid, users, ledger, gameData>>

\* ---------------------------------------------------------------- broker
\* a variant of the opening of a connection that subscribes after it published
OpenedSubscriptionAfterPublish(payloads) == NoSub

\* battle_queue: subscribe_and_forward has returned, with the subscription made,
\* before insert_initial_status_and_notify publishes: the new subscription holds
\* what the opening handler itself published
OpenedSubscription(payloads) == [NoSub EXCEPT !.topic = payloads]

\* connection.publish("battle_queue", payload) returns when the broker has taken
\* the payload: it then holds it, in publish order, for every subscription open at
\* that moment.  A connection that has just opened subscribed before it published
\* (subscribe_and_forward precedes insert_initial_status_and_notify), with a new
\* subscription and a new internal channel.
FanOut ==
    /\ published # <<>> /\ ~last.fanned
    /\ sub' = [u \in Users |->
                  IF conns[u] = 0 THEN sub[u]
                  ELSE IF last.op = "Open" /\ last.user = u
                  THEN OpenedSubscription(published)
                  ELSE [sub[u] EXCEPT !.topic = @ \o published]]
    /\ last' = [last EXCEPT !.fanned = TRUE]
    /\ UNCHANGED <<generated, inflight, ping, conns, statuses, nStatus, battles, mnstrs, logs, paid,
                   users, ledger, gameData, published>>

\* subscribe_and_forward, the spawned task: pubsub_stream.next() gives the next
\* message, its payload goes into the unbounded channel
Deliver(u) ==
    /\ conns[u] > 0 /\ sub[u].topic # <<>>
    /\ sub' = [sub EXCEPT ![u].topic = Tail(@),
                          ![u].got = Append(@, Head(sub[u].topic)),
                          ![u].rx = Append(@, Head(sub[u].topic))]
    /\ published' = <<>>
    /\ last' = [NoLast EXCEPT !.op = "Deliver", !.user = u]
    /\ UNCHANGED <<generated, inflight, ping, conns, statuses, nStatus, battles, mnstrs, logs, paid,
                   users, ledger, gameData>>

\* a variant of the loop's broker arm that yields the payload and leaves it queued
ForwardedChannelKeeps(rx) == rx

\* the channel after rx.recv() returned its first payload
ForwardedChannel(rx) == Tail(rx)

\* battle_queue loop, arm rx.recv(): Some(payload) is yielded to the client
Forward(u) ==
    /\ conns[u] > 0 /\ sub[u].rx # <<>>
    /\ sub' = [sub EXCEPT ![u].rx = ForwardedChannel(@),
                          ![u].out = Append(@, Head(sub[u].rx))]
    /\ published' = <<>>
    /\ last' = [NoLast EXCEPT !.op = "Forward", !.user = u,
                              !.yielded = <<Head(sub[u].rx)>>]
    /\ UNCHANGED <<generated, inflight, ping, conns, statuses, nStatus, battles, mnstrs, logs, paid,
                   users, ledger, gameData>>

\* ------------------------------------------------------------- heartbeat
\* spawn_redis_ping: a detached task per connection, an endless loop without a
\* break; nothing stops it when the connection's loop ends.  A step of the task
\* touches the task's own broker connection and nothing else.
HeartbeatStep(u, from, to, op, ok) ==
    /\ ping[u] \in from
    /\ ping' = [ping EXCEPT ![u] = to]
    /\ published' = <<>>
    /\ last' = [NoLast EXCEPT !.op = op, !.user = u, !.ok = ok]
    /\ UNCHANGED <<generated, inflight, sub, conns, statuses, nStatus, battles, mnstrs, logs, paid,
                   users, ledger, gameData>>

\* connection.ping() returns Ok: the task sleeps 300 ms
PingOk(u) == HeartbeatStep(u, {"ping"}, "sleep", "PingOk", TRUE)

\* a variant of the Err arm that leaves the loop
PingFailStops(u) == HeartbeatStep(u, {"ping"}, "none", "PingFail", FALSE)

\* connection.ping() returns Err: the task goes on to reconnect
PingFail(u) == HeartbeatStep(u, {"ping"}, "reconnect", "PingFail", FALSE)

\* connect_to_redis and get_multiplexed_async_connection: the connection is
\* replaced on success and kept on failure; either way the task sleeps 1 s
Reconnect(u, ok) == HeartbeatStep(u, {"reconnect"}, "backoff", "Reconnect", ok)

\* a sleep is over: the loop starts again with a ping
Wake(u) == HeartbeatStep(u, {"sleep", "backoff"}, "ping", "Wake", TRUE)

Heartbeat(u) ==
    \/ PingOk(u)
    \/ PingFail(u)
    \/ \E ok \in BOOLEAN : Reconnect(u, ok)
    \/ Wake(u)

\* ------------------------------------------------------------------ List
\* handle_list_request: BattleStatus::find_all (SELECT * FROM battle_statuses, no
\* filter, no order), the requester's rows filtered out, then the first row of
\* each user_id kept; which row of a user comes first is the store's choice
handle_list_request(table, requester_user_id) ==
    LET others == {r \in table : r.user_id # requester_user_id} IN
    {list \in SUBSET others :
        \A r \in others : Cardinality({x \in list : x.user_id = r.user_id}) = 1}

\* handle_incoming_ws_message, data action List: the payload goes to the
\* requesting client only, nothing is published
ClientList(u, fail) ==
    /\ conns[u] > 0
    /\ IF fail = "none"
       THEN \E list \in handle_list_request(statuses, u) :
               last' = [NoLast EXCEPT !.op = "List", !.user = u, !.list = list,
                                      !.yielded = <<build_success(u, "Lobby", "List",
                                                                  "List")>>]
       ELSE last' = [NoLast EXCEPT !.op = "List", !.user = u, !.ok = FALSE,
                                   !.fail = fail,
                                   !.yielded = <<build_error(u, "Lobby", "Error",
                                                             "List")>>]
    /\ published' = <<>>
    /\ UNCHANGED <<taskVars, conns, statuses, nStatus, battles, mnstrs, logs, paid, users,
                   ledger, gameData>>

\* ---------------------------------------------------------- matchmaking
\* Battle::new, as create_battle calls it; the id is the store's fresh id
NewBattle(id, challenger_id, opponent_id) ==
    [id |-> id, challenger_id |-> challenger_id, opponent_id |-> opponent_id,
     challenger_mnstr_id |-> None, opponent_mnstr_id |-> None,
     winner_id |-> None, winner_mnstr_id |-> None, archived |-> FALSE]

\* BattleStatus::find_one_by([user_id]): SELECT .. LIMIT 1 with no ORDER BY, so any
\* one of the user's rows may be the one returned
StatusRowsOf(table, user_id) == {r \in table : r.user_id = user_id}

FindOneStatus(table, user_id) ==
    IF StatusRowsOf(table, user_id) = {} THEN {NoStatus} ELSE StatusRowsOf(table, user_id)

\* the assignments handle_accept_request makes to a found status before update()
AcceptedStatus(status, opponent_id, battle_id) ==
    [status EXCEPT !.opponent_id = opponent_id, !.battle_id = battle_id,
                   !.status = "InBattle"]

\* update_resource!: UPDATE .. WHERE id = .., then the row read back
UpdateRow(table, row) == {IF r.id = row.id THEN row ELSE r : r \in table}

\* handle_accept_request(first, second, battle_id): the two status updates in the
\* order the code makes them.  Result: the table afterwards and whether it failed.
\* r1, r2 are the rows find_one_by returns for first and second (NoStatus: not found).
handle_accept_request(table, first, second, battle_id, r1, r2, fail) ==
    IF r1 = NoStatus THEN [statuses |-> table, err |-> TRUE]
    ELSE IF fail = "update1" THEN [statuses |-> table, err |-> TRUE]
    ELSE LET t1 == UpdateRow(table, AcceptedStatus(r1, second, battle_id)) IN
         IF r2 = NoStatus THEN [statuses |-> t1, err |-> TRUE]
         ELSE IF fail = "update2" THEN [statuses |-> t1, err |-> TRUE]
         ELSE [statuses |-> UpdateRow(t1, AcceptedStatus(r2, first, battle_id)),
               err |-> FALSE]

\* the envelopes one Accept publishes: handle_accept_challenge publishes the
\* failure it met and returns Err, on which handle_incoming_ws_message publishes
\* "Error accepting challenge"; on success the client's envelope becomes GameStarted
AcceptPublished(session, stage, queue) ==
    IF stage = "ok" THEN <<queue>>
    ELSE <<build_error(session, "Lobby", "Error",
                       IF stage = "accept" THEN "Accept" ELSE "Challenge"),
           build_error(session, "Lobby", "Error", "Accept")>>

AcceptFails == {"none", "create_battle", "update1", "update2", "load1", "load2"}

\* handle_incoming_ws_message, data action Accept -> handle_accept_challenge.
\* challenger_id = queue.data.user_id, opponent_id = queue.data.opponent_id, both
\* as the message gives them.
AcceptWith(session, challenger_id, opponent_id, coin_flip, fail) ==
    /\ conns[session] > 0
    /\ Cardinality(battles) < MaxBattles
    /\ LET battle == NewBattle(Cardinality(battles) + 1, challenger_id, opponent_id)
           created == fail # "create_battle"
       IN
       \E r1 \in FindOneStatus(statuses, opponent_id),
          r2 \in FindOneStatus(statuses, challenger_id) :
         LET acc == handle_accept_request(statuses, opponent_id, challenger_id,
                                          battle.id, r1, r2, fail)
             stage == IF ~created THEN "create"
                      ELSE IF acc.err THEN "accept"
                      ELSE IF fail \in {"load1", "load2"} THEN "load"
                      ELSE "ok"
             gd == [NoGameData EXCEPT
                      !.battle_id = battle.id,
                      !.turn_user_id = IF coin_flip = 0 THEN challenger_id
                                       ELSE opponent_id]
             queue == [user_id |-> challenger_id, channel |-> "Lobby",
                       action |-> "GameStarted", data_action |-> "GameStarted",
                       kind |-> "message", data |-> gd]
         IN
         /\ battles' = IF created THEN battles \cup {battle} ELSE battles
         /\ statuses' = IF created THEN acc.statuses ELSE statuses
         /\ published' = AcceptPublished(session, stage, queue)
         /\ gameData' = IF stage = "ok" THEN [gameData EXCEPT ![battle.id] = gd]
                        ELSE gameData
         /\ last' = [NoLast EXCEPT !.op = "Accept", !.user = session,
                                   !.a = challenger_id, !.b = opponent_id,
                                   !.battle = IF created THEN battle.id ELSE 0,
                                   !.ok = (stage = "ok"), !.fail = fail]
    /\ UNCHANGED <<taskVars, conns, nStatus, mnstrs, logs, paid, users, ledger>>

\* a client that names two different players
Accept(session, challenger_id, opponent_id, coin_flip, fail) ==
    /\ challenger_id # opponent_id
    /\ AcceptWith(session, challenger_id, opponent_id, coin_flip, fail)

\* ------------------------------------------------------ monster selection
BattleOf(table, id) == {b \in table : b.id = id}

\* Mnstr::find_one by id; None as id finds nothing
StoredMnstr(table, id) == IF id \in MnstrIds THEN table[id] ELSE NoMnstr

\* update_battle_mnstrs: the monster ids present in the client's GameData are
\* written onto the Battle row
update_battle_mnstrs(battle, challenger_mnstr, opponent_mnstr) ==
    [battle EXCEPT
       !.challenger_mnstr_id = IF challenger_mnstr # NoMnstr THEN challenger_mnstr.id ELSE @,
       !.opponent_mnstr_id = IF opponent_mnstr # NoMnstr THEN opponent_mnstr.id ELSE @]

\* a variant of the escalation test satisfied by one chosen monster
BothChosenEither(battle) ==
    battle.challenger_mnstr_id # None \/ battle.opponent_mnstr_id # None

\* the escalation test of the MnstrChosen arm
BothChosen(battle) ==
    battle.challenger_mnstr_id # None /\ battle.opponent_mnstr_id # None

MnstrChosenFails == {"none", "battle_update", "find_mnstr"}

\* handle_incoming_ws_message, data action MnstrChosen.  The client sends the
\* battle id and its own chosen monster on its own side of the GameData.
\* battle is the row Battle::find_one returned to update_battle_mnstrs.
MnstrChosenOn(battle, session, battle_id, mnstr_id, coin_flip, fail) ==
         /\ session \in {battle.challenger_id, battle.opponent_id}
         /\ LET sent == [NoGameData EXCEPT
                           !.battle_id = battle_id,
                           !.challenger_mnstr = IF session = battle.challenger_id
                                                THEN mnstrs[mnstr_id] ELSE NoMnstr,
                           !.opponent_mnstr = IF session = battle.challenger_id
                                              THEN NoMnstr ELSE mnstrs[mnstr_id]]
                updated == update_battle_mnstrs(battle, sent.challenger_mnstr,
                                                sent.opponent_mnstr)
                gd == [sent EXCEPT
                         !.challenger_mnstr =
                             IF updated.challenger_mnstr_id # None
                             THEN StoredMnstr(mnstrs, updated.challenger_mnstr_id) ELSE @,
                         !.opponent_mnstr =
                             IF updated.opponent_mnstr_id # None
                             THEN StoredMnstr(mnstrs, updated.opponent_mnstr_id) ELSE @,
                         !.turn_user_id = IF coin_flip = 0 THEN battle.challenger_id
                                          ELSE battle.opponent_id]
                started == BothChosen(updated)
                queue == [user_id |-> IF updated.challenger_mnstr_id # None
                                      THEN battle.challenger_id ELSE session,
                          channel |-> "Battle",
                          action |-> IF started THEN "GameStarted" ELSE "MnstrChosen",
                          data_action |-> IF started THEN "GameStarted" ELSE "MnstrChosen",
                          kind |-> "message", data |-> gd]
            IN
            /\ battles' = IF fail = "battle_update" THEN battles
                          ELSE UpdateRow(battles, updated)
            /\ published' = IF fail = "none" THEN <<queue>>
                            ELSE <<build_error(session, "Lobby", "Error", "MnstrChosen")>>
            /\ gameData' = IF fail = "none" THEN [gameData EXCEPT ![battle_id] = gd]
                           ELSE gameData
            /\ last' = [NoLast EXCEPT !.op = "MnstrChosen", !.user = session,
                                      !.battle = battle_id, !.ok = (fail = "none"),
                                      !.fail = fail]

\* the arm run without another handler in between: read, update, publish
MnstrChosen(session, battle_id, mnstr_id, coin_flip, fail) ==
    /\ conns[session] > 0
    /\ mnstrs[mnstr_id].user_id = session
    /\ \E battle \in BattleOf(battles, battle_id) :
          MnstrChosenOn(battle, session, battle_id, mnstr_id, coin_flip, fail)
    /\ UNCHANGED <<taskVars, conns, statuses, nStatus, mnstrs, logs, paid, users, ledger>>

\* the arm as two store accesses with an await between them.  First
\* update_battle_mnstrs reads the row with Battle::find_one ...
MnstrChosenRead(session, battle_id, mnstr_id) ==
    /\ conns[session] > 0
    /\ mnstrs[mnstr_id].user_id = session
    /\ inflight[session].pc = "idle"
    /\ \E battle \in BattleOf(battles, battle_id) :
         /\ session \in {battle.challenger_id, battle.opponent_id}
         /\ inflight' = [inflight EXCEPT ![session] =
                            [pc |-> "read", battle_id |-> battle_id,
                             mnstr_id |-> mnstr_id, battle |-> battle]]
    /\ published' = <<>>
    /\ last' = [NoLast EXCEPT !.op = "MnstrChosenRead", !.user = session,
                              !.battle = battle_id]
    /\ UNCHANGED <<generated, ping, sub, conns, statuses, nStatus, battles, mnstrs, logs, paid, users,
                   ledger, gameData>>

\* ... then Battle::update writes the row it holds in memory (both monster ids and
\* the winner columns, battle.rs 83-99) and the arm goes on with the row written
MnstrChosenWrite(session, coin_flip, fail) ==
    /\ inflight[session].pc = "read"
    /\ MnstrChosenOn(inflight[session].battle, session, inflight[session].battle_id,
                     inflight[session].mnstr_id, coin_flip, fail)
    /\ inflight' = [inflight EXCEPT ![session].pc = IF fail = "none" THEN "done"
                                                    ELSE "failed"]
    /\ UNCHANGED <<generated, ping, sub, conns, statuses, nStatus, mnstrs, logs, paid, users, ledger>>

\* ------------------------------------------------------------------ Rejoin
\* a variant of the monster put into the Rejoined GameData: the one the client sent
RejoinedMnstrSent(stored, sent) == sent

\* the Rejoin arm replaces the client's monsters by the stored rows
RejoinedMnstr(stored, sent) == stored

\* BattleStatus::find_one_by(user_id, status InQueue): the rows it may return
InQueueRows(table, user_id) ==
    {r \in table : r.user_id = user_id /\ r.status = "InQueue"}

\* BattleStatus::delete: the row with the status' id is removed
DeleteStatus(table, status) == {r \in table : r.id # status.id}

RejoinFails == {"none", "find_battle", "find_status", "status_delete", "find_mnstr"}

\* handle_incoming_ws_message, data action Rejoin.  The client sends the battle id
\* (0: none) with the GameData it last received, or with nothing else when it
\* has just started (bare).  BattleStatus::find_one_by(user_id, InQueue) returns
\* any one InQueue row of the user; the result of its delete is ignored.  A
\* Battle row with an empty monster id makes the unwrap panic: the connection's
\* task dies after the status row was deleted.
Rejoin(session, battle_id, bare, fail) ==
    /\ conns[session] > 0
    /\ LET sent == IF battle_id = 0 THEN NoGameData
                   ELSE IF bare THEN [NoGameData EXCEPT !.battle_id = battle_id]
                   ELSE [gameData[battle_id] EXCEPT !.battle_id = battle_id]
           found == IF battle_id = 0 \/ fail = "find_battle" THEN {}
                    ELSE BattleOf(battles, battle_id)
           queued == IF fail = "find_status" THEN {} ELSE InQueueRows(statuses, session)
           error == build_error(session, "Battle", "Error", "Rejoin")
           run == [NoLast EXCEPT !.op = "Rejoin", !.user = session, !.battle = battle_id,
                                 !.fail = fail]
       IN
       IF found = {} \/ queued = {}
       THEN /\ published' = <<error>>
            /\ last' = [run EXCEPT !.ok = FALSE]
            /\ UNCHANGED <<conns, statuses, gameData>>
       ELSE \E battle \in found, status \in queued :
              /\ statuses' = IF fail = "status_delete" THEN statuses
                             ELSE DeleteStatus(statuses, status)
              /\ IF battle.challenger_mnstr_id = None \/ battle.opponent_mnstr_id = None
                 THEN /\ conns' = [conns EXCEPT ![session] = @ - 1]
                      /\ published' = <<>>
                      /\ last' = [run EXCEPT !.ok = FALSE, !.fail = "panic"]
                      /\ UNCHANGED gameData
                 ELSE IF fail = "find_mnstr"
                 THEN /\ published' = <<>>
                      /\ last' = [run EXCEPT !.ok = FALSE]
                      /\ UNCHANGED <<conns, gameData>>
                 ELSE LET gd == [sent EXCEPT
                                   !.challenger_mnstr =
                                       RejoinedMnstr(
                                           StoredMnstr(mnstrs, battle.challenger_mnstr_id), @),
                                   !.opponent_mnstr =
                                       RejoinedMnstr(
                                           StoredMnstr(mnstrs, battle.opponent_mnstr_id), @)]
                      IN
                      /\ published' = <<[user_id |-> session, channel |-> "Battle",
                                         action |-> "Rejoined",
                                         data_action |-> "Rejoined",
                                         kind |-> "message", data |-> gd]>>
                      /\ gameData' = [gameData EXCEPT ![battle_id] = gd]
                      /\ last' = run
                      /\ UNCHANGED conns
    /\ UNCHANGED <<taskVars, nStatus, battles, mnstrs, logs, paid, users, ledger>>

\* ------------------------------------------------------------- settlement
\* handle_game_ended, "Finding winner": winner and loser monster re-resolved from
\* the Battle row, the stored monsters, the GameData's winner_id and the session
ResolveWinner(battle, challenger_mnstr, opponent_mnstr, winner_id, session) ==
    LET challengerWins == IF winner_id = session
                          THEN battle.challenger_id = session
                          ELSE battle.challenger_id # session
    IN IF challengerWins
       THEN [winner_user_id |-> challenger_mnstr.user_id,
             winner_mnstr_id |-> challenger_mnstr.id,
             loser_user_id |-> opponent_mnstr.user_id,
             loser_mnstr_id |-> opponent_mnstr.id]
       ELSE [winner_user_id |-> opponent_mnstr.user_id,
             winner_mnstr_id |-> opponent_mnstr.id,
             loser_user_id |-> challenger_mnstr.user_id,
             loser_mnstr_id |-> challenger_mnstr.id]

\* a variant of the reward computation that values the winner's own monster
RewardsOfWinner(loser_mnstr) ==
    LET xp_to_next_level == MNSTR_XP_FOR_LEVEL(loser_mnstr.current_level + 1) IN
    [winner_xp_awarded |-> xp_to_next_level \div 4,
     loser_xp_awarded |-> xp_to_next_level \div 8,
     winner_coins_awarded |-> 5,
     loser_coins_awarded |-> MnstrCoins(loser_mnstr)]

\* handle_game_ended, the amounts awarded, from the loser's stored monster
Rewards(loser_mnstr) ==
    LET xp_to_next_level == MNSTR_XP_FOR_LEVEL(loser_mnstr.current_level + 1) IN
    [winner_xp_awarded |-> xp_to_next_level \div 4,
     loser_xp_awarded |-> xp_to_next_level \div 8,
     winner_coins_awarded |-> MnstrCoins(loser_mnstr),
     loser_coins_awarded |-> 5]

\* handle_game_ended, winner.update_xp and loser.update_xp on the users loaded
\* before either is written
ApplyUserXp(us, res, award) ==
    [[us EXCEPT ![res.winner_user_id] =
                   UserAfterXp(us[res.winner_user_id], award.winner_xp_awarded)]
        EXCEPT ![res.loser_user_id] =
                   UserAfterXp(us[res.loser_user_id], award.loser_xp_awarded)]

\* handle_game_ended, winner_mnstr.update_xp and loser_mnstr.update_xp
ApplyMnstrXp(ms, res, award) ==
    [[ms EXCEPT ![res.winner_mnstr_id] =
                   MnstrAfterXp(ms[res.winner_mnstr_id], award.winner_xp_awarded)]
        EXCEPT ![res.loser_mnstr_id] =
                   MnstrAfterXp(ms[res.loser_mnstr_id], award.loser_xp_awarded)]

\* handle_game_ended, winner.add_coins then loser.add_coins
ApplyCoins(lg, res, award) ==
    Append(Append(lg, CreditEntry(res.winner_user_id, award.winner_coins_awarded)),
           CreditEntry(res.loser_user_id, award.loser_coins_awarded))

\* handle_left: the status find_one_by returns for the session user is deleted by id
handle_left(table, row) == {r \in table : r.id # row.id}

SettlementFails ==
    {"left_delete", "find_battle", "find_mnstr", "battle_update", "battle_delete", "rewards"}

\* handle_game_ended(queue, session_user_id): the whole settlement, as a function
\* of the store.  gd is the GameData in the queue, data_action the queue's data
\* action, row the status handle_left finds (NoStatus: none).  Result: the error
\* envelope (NoEnvelope on success), the tables afterwards, and the queue's new
\* GameData.
handle_game_ended(gd, data_action, session, row, fail, st, bt, ms, pd, us, lg) ==
    LET failed(action, st2, bt2) ==
            [err |-> build_error(session, "Battle", "Error", action),
             statuses |-> st2, battles |-> bt2, paid |-> pd, mnstrs |-> ms,
             users |-> us, ledger |-> lg, data |-> gd]
        st1 == handle_left(st, row)
    IN
    IF row = NoStatus \/ fail = "left_delete" THEN failed(data_action, st, bt)
    ELSE IF BattleOf(bt, gd.battle_id) = {} \/ fail = "find_battle"
    THEN failed(data_action, st1, bt)
    ELSE LET battle == CHOOSE b \in BattleOf(bt, gd.battle_id) : TRUE
             challenger_mnstr == StoredMnstr(ms, battle.challenger_mnstr_id)
             opponent_mnstr == StoredMnstr(ms, battle.opponent_mnstr_id)
             res == ResolveWinner(battle, challenger_mnstr, opponent_mnstr,
                                  gd.winner_id, session)
             won == [battle EXCEPT !.winner_id = res.winner_user_id,
                                   !.winner_mnstr_id = res.winner_mnstr_id]
         IN
         IF fail = "find_mnstr" \/ gd.winner_id = None THEN failed(data_action, st1, bt)
         ELSE IF fail = "battle_update" THEN failed("Escape", st1, bt)
         ELSE IF fail = "battle_delete" THEN failed("Escape", st1, UpdateRow(bt, won))
         ELSE LET bt2 == UpdateRow(bt, [won EXCEPT !.archived = TRUE]) IN
              IF fail = "rewards" THEN failed("Escape", st1, bt2)
              ELSE LET award == Rewards(StoredMnstr(ms, res.loser_mnstr_id)) IN
                   [err |-> NoEnvelope, statuses |-> st1, battles |-> bt2,
                    paid |-> [pd EXCEPT ![battle.id] = @ + 1],
                    mnstrs |-> ApplyMnstrXp(ms, res, award),
                    users |-> ApplyUserXp(us, res, award),
                    ledger |-> ApplyCoins(lg, res, award),
                    data |-> [NoGameData EXCEPT
                                !.battle_id = battle.id,
                                !.challenger_mnstr = challenger_mnstr,
                                !.opponent_mnstr = opponent_mnstr,
                                !.winner_id = res.winner_user_id,
                                !.winner_xp_awarded = award.winner_xp_awarded,
                                !.winner_coins_awarded = award.winner_coins_awarded,
                                !.loser_xp_awarded = award.loser_xp_awarded,
                                !.loser_coins_awarded = award.loser_coins_awarded]]

\* the GameEnded envelope handle_game_ended turns the queue into
GameEndedQueue(battle, gd) ==
    [user_id |-> battle.challenger_id, channel |-> "Battle", action |-> "GameEnded",
     data_action |-> "GameEnded", kind |-> "message", data |-> gd]

\* ------------------------------------------------------------------ escape
\* a variant of the winner selection in which the escaping player wins
EscapeWinnerSelf(gd, session) ==
    IF gd.challenger_mnstr.user_id = session THEN gd.challenger_mnstr.user_id
    ELSE gd.opponent_mnstr.user_id

\* Escape arm, winner selection: the owner of the combatant that is not the session's
EscapeWinner(gd, session) ==
    IF gd.challenger_mnstr.user_id = session THEN gd.opponent_mnstr.user_id
    ELSE gd.challenger_mnstr.user_id

\* a variant of the publish step without the early return after the error
PublishOutcomeNoReturn(err, queue) == IF err # NoEnvelope THEN <<err, queue>> ELSE <<queue>>

\* Escape and Attack arms: an error from the handler is published instead of the queue
PublishOutcome(err, queue) == IF err # NoEnvelope THEN <<err>> ELSE <<queue>>

\* handle_incoming_ws_message, data action Escape
Escape(session, battle_id, fail) ==
    /\ conns[session] > 0
    /\ gameData[battle_id].challenger_mnstr # NoMnstr
    /\ gameData[battle_id].opponent_mnstr # NoMnstr
    /\ LET sent == gameData[battle_id]
           gd == IF sent.winner_id = None
                 THEN [sent EXCEPT !.winner_id = EscapeWinner(sent, session)]
                 ELSE sent
       IN
       \E row \in FindOneStatus(statuses, session),
          battle \in BattleOf(battles, battle_id) :
        \E end \in {handle_game_ended(gd, "Escape", session, row, fail,
                                      statuses, battles, mnstrs, paid, users, ledger)} :
         /\ statuses' = end.statuses
         /\ battles' = end.battles
         /\ paid' = end.paid
         /\ mnstrs' = end.mnstrs
         /\ users' = end.users
         /\ ledger' = end.ledger
         /\ published' = PublishOutcome(end.err, GameEndedQueue(battle, end.data))
         /\ gameData' = IF end.err = NoEnvelope
                        THEN [gameData EXCEPT ![battle_id] = end.data] ELSE gameData
         /\ last' = [NoLast EXCEPT !.op = "Escape", !.user = session,
                                   !.battle = battle_id, !.ok = (end.err = NoEnvelope),
                                   !.fail = fail, !.winner = gd.winner_id,
                                   !.fresh = (sent.winner_id = None)]
    /\ UNCHANGED <<taskVars, conns, nStatus, logs>>

\* ------------------------------------------------------------------ attack
\* Rust's integer division truncates toward zero
TruncDiv(x, d) == IF x >= 0 THEN x \div d ELSE -((-x) \div d)

\* a variant of the role choice in which the turn holder attacks
AttackerOfTurnHolder(gd) ==
    IF gd.turn_user_id = gd.challenger_mnstr.user_id THEN gd.challenger_mnstr
    ELSE gd.opponent_mnstr

\* handle_attack, choice of roles: the combatant whose owner holds the turn defends
AttackerOf(gd) ==
    IF gd.turn_user_id = gd.challenger_mnstr.user_id THEN gd.opponent_mnstr
    ELSE gd.challenger_mnstr

DefenderOf(gd) ==
    IF gd.turn_user_id = gd.challenger_mnstr.user_id THEN gd.challenger_mnstr
    ELSE gd.opponent_mnstr

\* roll_dice(20) + stat / 20
AttackerRoll(die, attacker) == die + TruncDiv(attacker.current_speed, SpeedDivisor)
DefenderRoll(die, defender) == die + TruncDiv(defender.current_intelligence, SpeedDivisor)

\* a variant of the hit test in which a tie hits
IsHitOnTie(attacker_roll, defender_roll) == attacker_roll >= defender_roll

\* the hit test
IsHit(attacker_roll, defender_roll) == attacker_roll > defender_roll

\* a variant of the damage in which a roll above the defense is subtracted too
HealthAfterSubtracts(defender, attacker_roll, defender_roll) ==
    IF IsHit(attacker_roll, defender_roll)
    THEN defender.current_health - attacker_roll
    ELSE defender.current_health

\* the defender's health after the roll comparison
HealthAfter(defender, attacker_roll, defender_roll) ==
    IF IsHit(attacker_roll, defender_roll)
    THEN IF attacker_roll > defender.current_defense THEN 0
         ELSE defender.current_health - attacker_roll
    ELSE defender.current_health

\* the BattleLog handle_attack creates
AttackLog(battle_id, attacker, attacker_roll, defender_roll) ==
    [battle_id |-> battle_id, user_id |-> attacker.user_id, mnstr_id |-> attacker.id,
     action |-> IF IsHit(attacker_roll, defender_roll) THEN "Hit" ELSE "Missed"]

\* fatigue
TiredAttacker(attacker) ==
    [attacker EXCEPT !.current_attack = @ - 1, !.current_speed = @ - 1]

TiredDefenderKeepsWits(defender) ==
    [defender EXCEPT !.current_defense = @ - 1]

TiredDefender(defender) ==
    [defender EXCEPT !.current_defense = @ - 1, !.current_intelligence = @ - 1]

\* the GameData after the turn: both combatants put back on their sides, the
\* turn handed to the defender's owner
AfterTurn(gd, attacker, defender) ==
    [gd EXCEPT
       !.challenger_mnstr = IF attacker.user_id = gd.challenger_mnstr.user_id
                            THEN attacker ELSE defender,
       !.opponent_mnstr = IF attacker.user_id = gd.challenger_mnstr.user_id
                          THEN defender ELSE attacker,
       !.turn_user_id = defender.user_id]

\* Mnstr::update: the snapshot's stats are written to the monster's row
UpdateMnstr(table, mnstr) == [table EXCEPT ![mnstr.id] = mnstr]

Sign(x) == IF x > 0 THEN 1 ELSE IF x < 0 THEN -1 ELSE 0

\* a variant of the win check that lets a defender at health 0 fight on
DefeatedBelowZero(defender) == defender.current_health < 0

\* handle_attack, the win check after both monsters were saved
Defeated(defender) == defender.current_health <= 0

AttackFails == {"none", "log", "attacker", "defender"} \cup SettlementFails

\* what handle_attack has done by the time it reaches the win check, or fails:
\* the log entry, the two monster rows, the GameData of the turn
AttackTurn(sent, battle_id, attacker_die, defender_die, fail, ms) ==
    LET attacker0 == AttackerOf(sent)
        defender0 == DefenderOf(sent)
        attacker_roll == AttackerRoll(attacker_die, attacker0)
        defender_roll == DefenderRoll(defender_die, defender0)
        attacker == TiredAttacker(attacker0)
        defender == TiredDefender(
            [defender0 EXCEPT
               !.current_health = HealthAfter(defender0, attacker_roll, defender_roll)])
        logged == fail # "log"
        savedA == logged /\ fail # "attacker"
        savedD == savedA /\ fail # "defender"
        ms1 == IF savedA THEN UpdateMnstr(ms, attacker) ELSE ms
        turned == AfterTurn(sent, attacker, defender)
        dead == Defeated(defender)
    IN [attacker0 |-> attacker0, defender0 |-> defender0,
        attacker_roll |-> attacker_roll, defender_roll |-> defender_roll,
        logged |-> logged, saved |-> savedD,
        log |-> AttackLog(battle_id, attacker0, attacker_roll, defender_roll),
        mnstrs |-> IF savedD THEN UpdateMnstr(ms1, defender) ELSE ms1,
        dead |-> dead,
        data |-> IF dead THEN [turned EXCEPT !.winner_id = attacker.user_id]
                 ELSE turned]

\* handle_incoming_ws_message, data action Attack -> handle_attack, for the
\* GameData `sent` that the message carries
AttackWith(session, battle_id, sent, attacker_die, defender_die, fail) ==
    /\ conns[session] > 0
    /\ sent.challenger_mnstr # NoMnstr
    /\ sent.opponent_mnstr # NoMnstr
    /\ sent.turn_user_id # None
    /\ \E turn \in {AttackTurn(sent, battle_id, attacker_die,
                               defender_die, fail, mnstrs)} :
         /\ (fail \in SettlementFails => turn.dead)
         /\ \E row \in FindOneStatus(statuses, session),
               battle \in BattleOf(battles, battle_id) :
              \E end \in {IF turn.saved /\ turn.dead
                          THEN handle_game_ended(turn.data, "Attack", session, row, fail,
                                                 statuses, battles, turn.mnstrs, paid,
                                                 users, ledger)
                          ELSE [err |-> NoEnvelope, statuses |-> statuses,
                                battles |-> battles, paid |-> paid,
                                mnstrs |-> turn.mnstrs, users |-> users,
                                ledger |-> ledger, data |-> turn.data]} :
                \E err \in {IF ~turn.logged
                            THEN build_error(session, "Battle", "Error", "Attack")
                            ELSE IF ~turn.saved
                            THEN build_error(session, "Battle", "Error", "Escape")
                            ELSE end.err} :
                  /\ logs' = IF turn.logged THEN Append(logs, turn.log) ELSE logs
                  /\ mnstrs' = end.mnstrs
                  /\ users' = end.users
                  /\ ledger' = end.ledger
                  /\ statuses' = end.statuses
                  /\ battles' = end.battles
                  /\ paid' = end.paid
                  /\ published' =
                       PublishOutcome(err,
                           IF turn.dead THEN GameEndedQueue(battle, end.data)
                           ELSE [user_id |-> session, channel |-> "Battle",
                                 action |-> "Attack", data_action |-> "Attack",
                                 kind |-> "message", data |-> end.data])
                  /\ gameData' = IF err = NoEnvelope
                                 THEN [gameData EXCEPT ![battle_id] = end.data]
                                 ELSE gameData
                  /\ last' = [NoLast EXCEPT
                                !.op = "Attack", !.user = session, !.battle = battle_id,
                                !.ok = (err = NoEnvelope), !.fail = fail,
                                !.sent = sent,
                                !.attacker = turn.attacker0.id,
                                !.defender = turn.defender0.id,
                                !.cmp = IF turn.logged
                                        THEN Sign(turn.attacker_roll - turn.defender_roll)
                                        ELSE 0,
                                !.winner = turn.data.winner_id, !.terminal = turn.dead]
    /\ UNCHANGED <<taskVars, conns, nStatus>>

\* a client that echoes the GameData last published for the battle
Attack(session, battle_id, attacker_die, defender_die, fail) ==
    AttackWith(session, battle_id, gameData[battle_id], attacker_die, defender_die, fail)

\* snapshots a client can put in the message instead: one combat stat of one
\* combatant edited
EditedMnstr(m) ==
    {[m EXCEPT !.current_health = 1], [m EXCEPT !.current_defense = 0],
     [m EXCEPT !.current_speed = 200]}

EditedGameData(gd) ==
    {[gd EXCEPT !.challenger_mnstr = m] : m \in EditedMnstr(gd.challenger_mnstr)}
    \cup {[gd EXCEPT !.opponent_mnstr = m] : m \in EditedMnstr(gd.opponent_mnstr)}

\* a client that sends an edited snapshot
AttackEdited(session, battle_id, sent, attacker_die, defender_die) ==
    /\ gameData[battle_id].challenger_mnstr # NoMnstr
    /\ gameData[battle_id].opponent_mnstr # NoMnstr
    /\ sent \in EditedGameData(gameData[battle_id])
    /\ AttackWith(session, battle_id, sent, attacker_die, defender_die, "none")

\* a client that builds the GameData of its Attack itself, from monsters it names
AttackCrafted(session, battle_id, challenger_mnstr_id, opponent_mnstr_id, turn_user_id, attacker_die, defender_die) ==
    AttackWith(session, battle_id,
               [NoGameData EXCEPT !.battle_id = battle_id,
                                  !.challenger_mnstr = mnstrs[challenger_mnstr_id],
                                  !.opponent_mnstr = mnstrs[opponent_mnstr_id],
                                  !.turn_user_id = turn_user_id],
               attacker_die, defender_die, "none")

\* the message's GameData with both combatants replaced by their stored rows
Rehydrated(gd, ms) ==
    [gd EXCEPT !.challenger_mnstr = ms[gd.challenger_mnstr.id],
               !.opponent_mnstr = ms[gd.opponent_mnstr.id]]

CombatStats(m) ==
    <<m.current_health, m.current_attack, m.current_defense, m.current_speed,
      m.current_intelligence>>

\* --------------------------------------------------------------- build.rs
\* main runs generate_level_xp, then generate_mnstr_xp.  generate_level_xp: the
\* two seeds ...
GenerateLevelXpSeed ==
    /\ generated.level = <<>>
    /\ generated' = [generated EXCEPT !.level = <<0, 100>>]

\* ... and one turn of its loop, for i = Len(levels) in 2..100
GenerateLevelXpPush ==
    /\ Len(generated.level) >= 2 /\ Len(generated.level) < TableLen
    /\ generated' = [generated EXCEPT
                       !.level = Append(@, PushedXp(@[Len(@)], 100))]

\* generate_mnstr_xp: the seed ...
GenerateMnstrXpSeed ==
    /\ Len(generated.level) = TableLen
    /\ generated.mnstr = <<>>
    /\ generated' = [generated EXCEPT !.mnstr = <<50>>]

\* ... and one turn of its loop, for i = Len(levels) in 1..100
GenerateMnstrXpPush ==
    /\ Len(generated.mnstr) >= 1 /\ Len(generated.mnstr) < TableLen
    /\ generated' = [generated EXCEPT
                       !.mnstr = Append(@, PushedXp(@[Len(@)], 10))]

Generate ==
    /\ \/ GenerateLevelXpSeed
       \/ GenerateLevelXpPush
       \/ GenerateMnstrXpSeed
       \/ GenerateMnstrXpPush
    /\ published' = <<>>
    /\ last' = [NoLast EXCEPT !.op = "generate"]
    /\ UNCHANGED <<inflight, ping, sub, conns, statuses, nStatus, battles, mnstrs, logs,
                   paid, users, ledger, gameData>>

NextBuild == Generate

SpecBuild == Init /\ [][NextBuild]_vars

\* ---------------------------------------------------------------- leveling
UpdateXpFails == {"none", "update"}

\* a caller applies user.update_xp(xp) to a stored user (settlement does, and
\* Mnstr::create); the row is persisted by self.update() unless that fails or the
\* table lookup panicked
ApplyXp(u, xp, fail) ==
    /\ \E r \in {update_xp(users[u], xp)} :
         /\ users' = IF fail = "none" /\ ~r.panic
                     THEN [users EXCEPT ![u] =
                              [@ EXCEPT !.experience_level = r.experience_level,
                                        !.experience_points = r.experience_points]]
                     ELSE users
         /\ last' = [NoLast EXCEPT !.op = "update_xp", !.user = u, !.arg = xp,
                                   !.ok = (fail = "none" /\ ~r.panic),
                                   !.fail = IF r.panic THEN "panic" ELSE fail,
                                   !.res = r.experience_level]
    /\ published' = <<>>
    /\ UNCHANGED <<taskVars, conns, statuses, nStatus, battles, mnstrs, logs, paid, ledger, gameData>>

\* -------------------------------------------------------------- coin value
\* a caller evaluates mnstr.coins() on a stored monster (Mnstr::create does, and
\* settlement does for the loser's monster)
EvalCoins(m) ==
    /\ last' = [NoLast EXCEPT !.op = "coins", !.mnstr = m, !.res = MnstrCoins(mnstrs[m])]
    /\ published' = <<>>
    /\ UNCHANGED <<taskVars, conns, statuses, nStatus, battles, mnstrs, logs, paid, users, ledger,
                   gameData>>

\* ------------------------------------------------------------------ wallet
AddCoinsFails == {"none", "get_wallet", "create", "get_coins"}

\* User::add_coins(coins) -> Wallet::add_coins(coins): the wallet of the user is
\* looked up, one Transaction is created, and the balance is read back with
\* get_coins.  res is the balance the wallet object holds when the call returns.
AddCoins(u, n, fail) ==
    /\ ledger' = IF fail \in {"none", "get_coins"} THEN Append(ledger, CreditEntry(u, n))
                 ELSE ledger
    /\ last' = [NoLast EXCEPT !.op = "add_coins", !.user = u, !.arg = n,
                              !.ok = (fail = "none"), !.fail = fail,
                              !.res = IF fail = "none" THEN get_coins(ledger', u)
                                      ELSE get_coins(ledger, u)]
    /\ published' = <<>>
    /\ UNCHANGED <<taskVars, conns, statuses, nStatus, battles, mnstrs, logs, paid, users, gameData>>

\* ------------------------------------------------------- specifications
Dice == 1..DiceSides

\* a client chooses its monster once: its side of the Battle row is still empty
SideOpen(session, battle_id) ==
    \E battle \in BattleOf(battles, battle_id) :
        IF session = battle.challenger_id THEN battle.challenger_mnstr_id = None
        ELSE battle.opponent_mnstr_id = None

\* the matchmaking lobby: connections, presence and the Accept handshake, with
\* every store failure
NextLobby ==
    \/ \E u \in Users, fail \in {"none", "insert"} : OpenConnection(u, fail)
    \/ \E u \in Users, fail \in {"none", "insert"} : ClientConnect(u, fail)
    \/ \E u \in Users, fail \in {"none", "delete"} : ClientEmpty(u, fail)
    \/ \E u \in Users : StreamEnd(u)
    \/ \E s \in Users, a \in Users, b \in Users, coin \in 0..1, fail \in AcceptFails :
          Accept(s, a, b, coin, fail)

SpecLobby == Init /\ [][NextLobby]_vars

\* the lobby with its List requests
NextList ==
    \/ NextLobby
    \/ \E u \in Users, fail \in {"none", "find_all"} : ClientList(u, fail)

SpecList == Init /\ [][NextList]_vars

\* each user's first connection with its heartbeat task; the scheduler keeps
\* running a task
NextPing ==
    \/ \E u \in Users, fail \in {"none", "insert"} \cup OpenFails :
          ping[u] = "none" /\ OpenConnection(u, fail)
    \/ \E u \in Users, fail \in {"none", "delete"} : ClientEmpty(u, fail)
    \/ \E u \in Users : StreamEnd(u)
    \/ \E u \in Users : PingOk(u)
    \/ \E u \in Users : PingFail(u)
    \/ \E u \in Users, ok \in BOOLEAN : Reconnect(u, ok)
    \/ \E u \in Users : Wake(u)

SpecPing == Init /\ [][NextPing]_vars /\ \A u \in Users : WF_vars(Heartbeat(u))

\* the broker has taken what the last handler run published
Taken == published = <<>> \/ last.fanned

\* room for another handler run on every subscription
TopicRoom == \A u \in Users : Len(sub[u].topic) + Len(sub[u].got) < MaxTopic

\* the lobby with its broker: handler runs publish, the broker fans out, the
\* forwarder tasks and the loops pass the payloads on to the clients
NextBroker ==
    \/ \E u \in Users :
          Taken /\ TopicRoom /\ conns[u] = 0 /\ OpenConnection(u, "none")
    \/ \E u \in Users : Taken /\ TopicRoom /\ ClientEmpty(u, "none")
    \/ \E u \in Users : Taken /\ StreamEnd(u)
    \/ FanOut
    \/ \E u \in Users : Taken /\ Deliver(u)
    \/ \E u \in Users : Taken /\ Forward(u)

SpecBroker == Init /\ [][NextBroker]_vars

\* connections that open and end, with the broker and its scheduling: the
\* broker hands over what it has taken, the forwarder task of a connection and
\* the connection's loop run whenever they have a payload to pass on
NextJoin ==
    \/ \E u \in Users :
          Taken /\ TopicRoom /\ conns[u] = 0 /\ OpenConnection(u, "none")
    \/ \E u \in Users : Taken /\ StreamEnd(u)
    \/ FanOut
    \/ \E u \in Users : Taken /\ Deliver(u)
    \/ \E u \in Users : Taken /\ Forward(u)

SpecJoin ==
    /\ Init /\ [][NextJoin]_vars
    /\ WF_vars(FanOut)
    /\ \A u \in Users : SF_vars(Taken /\ Deliver(u)) /\ SF_vars(Taken /\ Forward(u))

\* connections: every token, every way a connection opens, misbehaves and ends
NextPresence ==
    \/ \E u \in Users, token \in Tokens, fail \in {"none", "insert"} \cup OpenFails :
          battle_queue(u, token, fail)
    \/ \E u \in Users, fail \in {"none", "insert"} : ClientConnect(u, fail)
    \/ \E u \in Users, fail \in {"none", "delete"} : ClientEmpty(u, fail)
    \/ \E u \in Users, fail \in {"none", "delete"} : StreamError(u, fail)
    \/ \E u \in Users, kind \in UnparsableKinds, fail \in {"none", "delete"} :
          ClientUnparsable(u, kind, fail)
    \/ \E u \in Users : StreamEnd(u)

SpecPresence == Init /\ [][NextPresence]_vars

\* the steps that lead two players into a battle, without store failures: each
\* player opens one connection, one challenge is accepted, each picks a monster
NextSetup ==
    \/ \E u \in Users : conns[u] = 0 /\ OpenConnection(u, "none")
    \/ \E s \in Users, a \in Users, b \in Users, coin \in 0..1 :
          battles = {} /\ Accept(s, a, b, coin, "none")
    \/ \E s \in Users, bid \in 1..MaxBattles, m \in MnstrIds, coin \in 0..1 :
          SideOpen(s, bid) /\ MnstrChosen(s, bid, m, coin, "none")

\* players on the way into a battle whose clients also send envelopes no handler
\* is written for
NextOther ==
    \/ NextSetup
    \/ \E u \in Users, data_action \in SilentDataActions \cup DefaultDataActions :
          \E queue \in ClientEnvelopes(data_action) : ClientOther(u, queue)

SpecOther == Init /\ [][NextOther]_vars

\* monster selection: after the handshake each participant may send MnstrChosen
\* any number of times, and every store call of the arm may fail
NextSelection ==
    \/ \E u \in Users : conns[u] = 0 /\ OpenConnection(u, "none")
    \/ \E s \in Users, a \in Users, b \in Users, coin \in 0..1 :
          battles = {} /\ Accept(s, a, b, coin, "none")
    \/ \E s \in Users, bid \in 1..MaxBattles, m \in MnstrIds, coin \in 0..1,
          fail \in MnstrChosenFails : MnstrChosen(s, bid, m, coin, fail)

SpecSelection == Init /\ [][NextSelection]_vars

\* two handlers process the participants' MnstrChosen of one battle at the same
\* time: their store accesses interleave in every order
NextRace ==
    \/ \E u \in Users : conns[u] = 0 /\ OpenConnection(u, "none")
    \/ \E s \in Users, a \in Users, b \in Users, coin \in 0..1 :
          battles = {} /\ Accept(s, a, b, coin, "none")
    \/ \E s \in Users, bid \in 1..MaxBattles, m \in MnstrIds : MnstrChosenRead(s, bid, m)
    \/ \E s \in Users, coin \in 0..1, fail \in MnstrChosenFails :
          MnstrChosenWrite(s, coin, fail)

SpecRace == Init /\ [][NextRace]_vars

\* a battle: Attack and Escape messages from both players, every pair of dice
NextBattle ==
    \/ NextSetup
    \/ \E s \in Users, bid \in 1..MaxBattles, ad \in Dice, dd \in Dice :
          Len(logs) < MaxAttacks /\ Attack(s, bid, ad, dd, "none")
    \/ \E s \in Users, bid \in 1..MaxBattles : Escape(s, bid, "none")

SpecBattle == Init /\ [][NextBattle]_vars

\* the lowest, a middle and the highest face of the die
FaultDice == {1, DiceSides \div 2, DiceSides}

\* a battle in which every store call handle_attack makes itself may fail
NextFaults ==
    \/ NextSetup
    \/ \E s \in Users, bid \in 1..MaxBattles, ad \in FaultDice, dd \in FaultDice,
          fail \in AttackFails \ SettlementFails :
          Len(logs) < MaxFaultyAttacks /\ Attack(s, bid, ad, dd, fail)
    \/ \E s \in Users, bid \in 1..MaxBattles : Escape(s, bid, "none")

SpecFaults == Init /\ [][NextFaults]_vars

\* battles in which a client may send an edited snapshot with its Attack
NextEdited ==
    \/ NextSetup
    \/ \E s \in Users, bid \in 1..MaxBattles, ad \in FaultDice, dd \in FaultDice :
          \/ Len(logs) < MaxAttacks /\ Attack(s, bid, ad, dd, "none")
          \/ \E sent \in EditedGameData(gameData[bid]) :
                Len(logs) < MaxAttacks /\ AttackEdited(s, bid, sent, ad, dd)

SpecEdited == Init /\ [][NextEdited]_vars

\* a battle fought by clients that echo the published GameData, on three faces
\* of each die
NextHit ==
    \/ NextSetup
    \/ \E s \in Users, bid \in 1..MaxBattles, ad \in FaultDice, dd \in FaultDice :
          Len(logs) < MaxAttacks /\ Attack(s, bid, ad, dd, "none")

SpecHit == Init /\ [][NextHit]_vars

\* battles that end by Escape, and connected players who accept again whenever
\* they like
NextRematch ==
    \/ NextSetup
    \/ \E s \in Users, bid \in 1..MaxBattles : Escape(s, bid, "none")
    \/ \E s \in Users, a \in Users, b \in Users, coin \in 0..1 :
          battles # {} /\ conns[a] > 0 /\ conns[b] > 0 /\ Accept(s, a, b, coin, "none")

SpecRematch == Init /\ [][NextRematch]_vars

\* sessions that name any pair of players in an Accept and any battle and
\* monsters in an Attack or Escape
NextOutsider ==
    \/ \E u \in Users : conns[u] = 0 /\ OpenConnection(u, "none")
    \/ \E s \in Users, a \in Users, b \in Users, coin \in 0..1 :
          battles = {} /\ AcceptWith(s, a, b, coin, "none")
    \/ \E s \in Users, bid \in 1..MaxBattles, m \in MnstrIds, coin \in 0..1 :
          SideOpen(s, bid) /\ MnstrChosen(s, bid, m, coin, "none")
    \/ \E s \in Users, bid \in 1..MaxBattles, ad \in FaultDice, dd \in FaultDice :
          Len(logs) < MaxAttacks /\ Attack(s, bid, ad, dd, "none")
    \/ \E s \in Users, bid \in 1..MaxBattles, c \in MnstrIds, o \in MnstrIds, t \in Users :
          logs = <<>> /\ AttackCrafted(s, bid, c, o, t, DiceSides, 1)
    \/ \E s \in Users, bid \in 1..MaxBattles : Escape(s, bid, "none")

SpecOutsider == Init /\ [][NextOutsider]_vars

\* settlements by Escape in which every store call of handle_game_ended may fail
NextSettlement ==
    \/ NextSetup
    \/ \E s \in Users, bid \in 1..MaxBattles, fail \in {"none"} \cup SettlementFails :
          Escape(s, bid, fail)

SpecSettlement == Init /\ [][NextSettlement]_vars

\* a battle with one attack (a hit) whose participants lose and reopen their
\* connections and, once both monsters are chosen, rejoin
NextRejoin ==
    \/ NextSetup
    \/ \E u \in Users : ClientEmpty(u, "none")
    \/ \E u \in Users : StreamEnd(u)
    \/ \E s \in Users, bid \in 1..MaxBattles :
          logs = <<>> /\ Attack(s, bid, DiceSides, 1, "none")
    \/ \E s \in Users, bid \in 1..MaxBattles, bare \in BOOLEAN, fail \in RejoinFails :
          (\E battle \in BattleOf(battles, bid) : BothChosen(battle))
          /\ Rejoin(s, bid, bare, fail)

SpecRejoin == Init /\ [][NextRejoin]_vars

\* amounts credited: the consolation award, coin values of monsters, the maximum
CoinAmounts == {5, 20, 1080, 2000}

\* the wallets: add_coins calls for both users, with every store failure
NextWallet ==
    \E u \in Users, n \in CoinAmounts, fail \in AddCoinsFails :
        Len(ledger) < MaxLedger /\ AddCoins(u, n, fail)

SpecWallet == Init /\ [][NextWallet]_vars

\* experience amounts: nothing, an award that stays below, reaches or crosses one
\* threshold, one that crosses several, and one larger than the whole table
XpInputs == {0, 100, 1000, 2000000}

\* the players' experience: update_xp calls on users of level up to MaxXpLevel
NextXp ==
    \E u \in Users, xp \in XpInputs, fail \in UpdateXpFails :
        users[u].experience_level <= MaxXpLevel /\ ApplyXp(u, xp, fail)

SpecXp == Init /\ [][NextXp]_vars

\* the bytes of a digest
Byte == 0..ByteMax

\* monsters whose QR strings hash to every pair of digest bytes
InitCoins ==
    /\ conns = [u \in Users |-> 0]
    /\ statuses = {}
    /\ nStatus = 0
    /\ battles = {}
    /\ \E c \in Byte, m \in Byte :
         mnstrs = [InitMnstrs EXCEPT !["m1"].qr_coins_byte = c,
                                     !["m1"].qr_multiplier_byte = m]
    /\ logs = <<>>
    /\ paid = [b \in 1..MaxBattles |-> 0]
    /\ users = InitUsers
    /\ ledger = <<CreditEntry("u1", MnstrCoins(mnstrs["m1"])),
                  CreditEntry("u2", MnstrCoins(mnstrs["m2"]))>>
    /\ gameData = [b \in 1..MaxBattles |-> NoGameData]
    /\ published = <<>>
    /\ last = NoLast
    /\ inflight = [u \in Users |-> NoRun]
    /\ generated = [level |-> <<>>, mnstr |-> <<>>]
    /\ ping = [u \in Users |-> "none"]
    /\ sub = [u \in Users |-> NoSub]

NextCoins == \E m \in MnstrIds : EvalCoins(m)

SpecCoins == InitCoins /\ [][NextCoins]_vars

\* the whole coordinator
Next ==
    \/ NextLobby
    \/ NextPresence
    \/ \E u \in Users, fail \in {"none", "find_all"} : ClientList(u, fail)
    \/ \E s \in Users, bid \in 1..MaxBattles, m \in MnstrIds : MnstrChosenRead(s, bid, m)
    \/ \E s \in Users, coin \in 0..1, fail \in MnstrChosenFails :
          MnstrChosenWrite(s, coin, fail)
    \/ \E u \in Users : Heartbeat(u)
    \/ FanOut
    \/ \E u \in Users : Deliver(u)
    \/ \E u \in Users : Forward(u)
    \/ \E s \in Users, bid \in 0..MaxBattles, bare \in BOOLEAN, fail \in RejoinFails :
          Rejoin(s, bid, bare, fail)
    \/ \E s \in Users, bid \in 1..MaxBattles, m \in MnstrIds, coin \in 0..1,
          fail \in MnstrChosenFails : MnstrChosen(s, bid, m, coin, fail)
    \/ \E s \in Users, bid \in 1..MaxBattles, ad \in Dice, dd \in Dice,
          fail \in AttackFails : Attack(s, bid, ad, dd, fail)
    \/ \E s \in Users, bid \in 1..MaxBattles, ad \in Dice, dd \in Dice :
          \E sent \in EditedGameData(gameData[bid]) : AttackEdited(s, bid, sent, ad, dd)
    \/ \E s \in Users, bid \in 1..MaxBattles, fail \in {"none"} \cup SettlementFails :
          Escape(s, bid, fail)
    \/ \E s \in Users, bid \in 1..MaxBattles, c \in MnstrIds, o \in MnstrIds, t \in Users,
          ad \in Dice, dd \in Dice : AttackCrafted(s, bid, c, o, t, ad, dd)
    \/ \E s \in Users, a \in Users, fail \in AcceptFails : AcceptWith(s, a, a, 0, fail)
    \/ \E u \in Users, data_action \in SilentDataActions \cup DefaultDataActions :
          \E queue \in ClientEnvelopes(data_action) : ClientOther(u, queue)
    \/ Generate
    \/ \E u \in Users, n \in CoinAmounts, fail \in AddCoinsFails : AddCoins(u, n, fail)
    \/ \E m \in MnstrIds : EvalCoins(m)
    \/ \E u \in Users, xp \in XpInputs, fail \in UpdateXpFails : ApplyXp(u, xp, fail)

Spec == Init /\ [][Next]_vars
\* ------------------------------------------------------------------ claims
Owner(mnstr_id) == InitMnstrs[mnstr_id].user_id

GameStartedIn(envelopes) ==
    {i \in 1..Len(envelopes) : envelopes[i].action = "GameStarted"}

\* C1: a successful Accept naming challenger A and opponent B creates exactly one
\* Battle row linking A and B, leaves every PresenceRecord of A and of B InBattle
\* with the other user as opponent and the new battle's id, and publishes exactly
\* one GameStarted envelope.
C1_AcceptStartsBattle ==
    [][(last'.op = "Accept" /\ last'.ok) =>
          /\ \E nb \in battles' \ battles :
               /\ battles' = battles \cup {nb}
               /\ nb.id = last'.battle
               /\ nb.challenger_id = last'.a /\ nb.opponent_id = last'.b
          /\ StatusRowsOf(statuses', last'.a) # {}
          /\ StatusRowsOf(statuses', last'.b) # {}
          /\ \A r \in statuses' :
               r.user_id \in {last'.a, last'.b} =>
                  /\ r.status = "InBattle"
                  /\ r.battle_id = last'.battle
                  /\ r.opponent_id = IF r.user_id = last'.a THEN last'.b ELSE last'.a
          /\ Cardinality(GameStartedIn(published')) = 1]_vars

\* C1 restricted to an Accept that finds exactly one PresenceRecord for A and one
\* for B before it runs
OneRecordEach ==
    [][(/\ last'.op = "Accept" /\ last'.ok
        /\ Cardinality(StatusRowsOf(statuses, last'.a)) = 1
        /\ Cardinality(StatusRowsOf(statuses, last'.b)) = 1) =>
          /\ \A r \in statuses' :
               r.user_id \in {last'.a, last'.b} =>
                  /\ r.status = "InBattle"
                  /\ r.battle_id = last'.battle
                  /\ r.opponent_id = IF r.user_id = last'.a THEN last'.b ELSE last'.a
          /\ Cardinality(battles') = Cardinality(battles) + 1
          /\ Cardinality(GameStartedIn(published')) = 1]_vars

\* C2: an Accept that fails at any step leaves both players' PresenceRecords as
\* they were before it and publishes no GameStarted envelope.
C2_FailedAcceptChangesNothing ==
    [][(last'.op = "Accept" /\ ~last'.ok) =>
          /\ StatusRowsOf(statuses', last'.a) = StatusRowsOf(statuses, last'.a)
          /\ StatusRowsOf(statuses', last'.b) = StatusRowsOf(statuses, last'.b)
          /\ GameStartedIn(published') = {}]_vars

\* C3: in every reachable state there is at most one PresenceRecord per user id.
C3_OneRecordPerUser ==
    \A r1 \in statuses, r2 \in statuses : r1.user_id = r2.user_id => r1 = r2

\* a settlement has just completed: an Escape, or an Attack that defeated the defender
Settled == last.ok /\ (last.op = "Escape" \/ (last.op = "Attack" /\ last.terminal))

\* C4: after the settlement of battle B completes, no PresenceRecord with status
\* InBattle and battle id B remains, for the caller or for the other player.
C4_SettlementClearsPresence ==
    Settled => \A r \in statuses : ~(r.status = "InBattle" /\ r.battle_id = last.battle)

\* C5: turns alternate: of two successive non-terminal Attacks on one battle, the
\* second carrying the GameData the first published, the attacker of the second
\* is the defender of the first.
C5_TurnsAlternate ==
    [][(/\ last.op = "Attack" /\ last.ok /\ ~last.terminal
        /\ last'.op = "Attack" /\ last'.ok /\ ~last'.terminal
        /\ last'.battle = last.battle) =>
          last'.attacker = last.defender]_vars

\* C6: in an Attack the attacker is the combatant whose owner is not turnUserId and
\* the defender the combatant whose owner is turnUserId; after a non-terminal
\* Attack the published GameData has turnUserId equal to the defender's owner.
C6_AttackerIsNotTurnHolder ==
    [][(last'.op = "Attack" /\ last'.ok) =>
          LET sent == gameData[last'.battle] IN
          /\ {last'.attacker, last'.defender} =
                {sent.challenger_mnstr.id, sent.opponent_mnstr.id}
          /\ Owner(last'.attacker) # sent.turn_user_id
          /\ Owner(last'.defender) = sent.turn_user_id
          /\ ~last'.terminal =>
                /\ Len(published') = 1
                /\ published'[1].data.turn_user_id = Owner(last'.defender)]_vars

C6_Witness == last.op = "Attack" /\ last.ok /\ ~last.terminal /\ last.cmp = 1

\* C7: a monster's health is never negative, in the store and in the published
\* GameData.
C7_HealthNeverNegative ==
    /\ \A m \in MnstrIds : mnstrs[m].current_health >= 0
    /\ \A i \in 1..Len(published) :
         /\ published[i].data.challenger_mnstr.current_health >= 0
         /\ published[i].data.opponent_mnstr.current_health >= 0

\* C8: every Attack that completes appends exactly one BattleLogEntry for the
\* battle, Hit when attackerRoll > defenderRoll and Missed otherwise, tagged with
\* the attacker's user id and monster id.
C8_OneLogEntryPerAttack ==
    [][(last'.op = "Attack" /\ last'.ok) =>
          logs' = Append(logs,
                         [battle_id |-> last'.battle,
                          user_id |-> Owner(last'.attacker),
                          mnstr_id |-> last'.attacker,
                          action |-> IF last'.cmp = 1 THEN "Hit" ELSE "Missed"])]_vars

C8_Witness ==
    /\ last.op = "Attack" /\ last.ok /\ last.cmp = 0
    /\ Len(logs) = 2 /\ logs[1].action = "Hit" /\ logs[2].action = "Missed"

\* C9: if creating the BattleLogEntry or persisting either combatant fails during
\* an Attack, exactly one Error envelope with channel Battle is published and the
\* Attack envelope is not: no GameData with changed stats or turn is broadcast.
C9_FailedAttackPublishesOneError ==
    [][(last'.op = "Attack" /\ last'.fail \in {"log", "attacker", "defender"}) =>
          /\ Len(published') = 1
          /\ published'[1].action = "Error"
          /\ published'[1].channel = "Battle"
          /\ published'[1].data = NoGameData
          /\ gameData' = gameData]_vars

C9_Witness ==
    /\ last.op = "Attack" /\ last.fail = "defender" /\ ~last.ok
    /\ Len(logs) = 1
    /\ mnstrs[last.attacker] # InitMnstrs[last.attacker]

\* C10: an Escape sent by a participant for a battle whose GameData has no winner
\* passes the owner of the other combatant into settlement as the winner, never
\* the sender; no dice are rolled (the step has no roll and no attacker) and no
\* BattleLogEntry is appended.
C10_EscapeForfeits ==
    [][(last'.op = "Escape" /\ last'.fresh) =>
          LET sent == gameData[last'.battle]
              mine == IF sent.challenger_mnstr.user_id = last'.user
                      THEN sent.challenger_mnstr ELSE sent.opponent_mnstr
              other == IF sent.challenger_mnstr.user_id = last'.user
                       THEN sent.opponent_mnstr ELSE sent.challenger_mnstr
          IN
          /\ mine.user_id = last'.user
          /\ last'.winner = other.user_id
          /\ last'.winner # last'.user
          /\ last'.attacker = None /\ last'.defender = None /\ last'.cmp = 0
          /\ logs' = logs
          /\ last'.ok =>
                \E b \in BattleOf(battles', last'.battle) : b.winner_id = last'.winner]_vars

C10_Witness ==
    /\ last.op = "Escape" /\ last.fresh /\ last.ok
    /\ \E b \in BattleOf(battles, last.battle) : b.winner_id # last.user /\ b.archived

\* C11: after the settlement of battle B completes, Battle::find_one by B's id
\* finds nothing, while every BattleLogEntry present before is still present and
\* unchanged.
C11_SettledBattleIsGone ==
    [][(/\ last'.ok
        /\ (last'.op = "Escape" \/ (last'.op = "Attack" /\ last'.terminal))) =>
          /\ BattleOf(battles', last'.battle) = {}
          /\ Len(logs') >= Len(logs)
          /\ \A i \in 1..Len(logs) : logs'[i] = logs[i]]_vars

\* the monster a user fights with
MnstrOf(user_id) == CHOOSE m \in MnstrIds : Owner(m) = user_id

OtherUser(user_id) == CHOOSE u \in Users : u # user_id

\* C12: a completed settlement whose loser monster has level L awards the winner
\* MonsterXpTable[L+1] div 4 XP and the coin value of the loser's monster, and the
\* loser MonsterXpTable[L+1] div 8 XP and 5 coins; exactly these amounts are
\* applied to the two players' experience and wallets and reported in the
\* GameEnded GameData.
C12_RewardAmounts ==
    [][(/\ last'.ok
        /\ (last'.op = "Escape" \/ (last'.op = "Attack" /\ last'.terminal))) =>
          LET winner == last'.winner
              loser == OtherUser(winner)
              loser_mnstr == mnstrs[MnstrOf(loser)]
              xp == MnstrXpTable[loser_mnstr.current_level + 2]
              gd == published'[1].data
          IN
          /\ loser_mnstr.current_level \in 0..99
          /\ published'[1].action = "GameEnded"
          /\ gd.winner_id = winner
          /\ gd.winner_xp_awarded = xp \div 4
          /\ gd.loser_xp_awarded = xp \div 8
          /\ gd.winner_coins_awarded = MnstrCoins(loser_mnstr)
          /\ gd.loser_coins_awarded = 5
          /\ users'[winner] = UserAfterXp(users[winner], xp \div 4)
          /\ users'[loser] = UserAfterXp(users[loser], xp \div 8)
          /\ ledger' = ledger \o <<CreditEntry(winner, MnstrCoins(loser_mnstr)),
                                   CreditEntry(loser, 5)>>
          /\ get_coins(ledger', winner)
                = get_coins(ledger, winner) + MnstrCoins(loser_mnstr)
          /\ get_coins(ledger', loser) = get_coins(ledger, loser) + 5]_vars

C12_Witness ==
    /\ Settled /\ last.op = "Attack" /\ last.winner = "u1"
    /\ published[1].data.winner_xp_awarded = 21
    /\ published[1].data.loser_xp_awarded = 10
    /\ published[1].data.winner_coins_awarded = 1080
    /\ users["u1"].experience_points = 71
    /\ get_coins(ledger, "u1") = 20 + 1080
    /\ get_coins(ledger, "u2") = 1080 + 5

\* the sum of the amounts of the ledger entries of a wallet, entry by entry
RECURSIVE LedgerSum(_, _, _)
LedgerSum(table, wallet_id, n) ==
    IF n = 0 THEN 0
    ELSE LedgerSum(table, wallet_id, n - 1)
         + (IF table[n].wallet_id = wallet_id THEN table[n].transaction_amount ELSE 0)

\* C13: add_coins(n) appends exactly one Credit/Completed ledger entry of amount n
\* for the wallet and changes no existing entry; the balance it reports is the
\* sum of the amounts of all ledger entries of the wallet, n more than before.
C13_AddCoinsCredits ==
    [][(last'.op = "add_coins" /\ last'.ok) =>
          /\ ledger' = Append(ledger, [wallet_id |-> last'.user,
                                       transaction_type |-> "credit",
                                       transaction_amount |-> last'.arg,
                                       transaction_status |-> "completed"])
          /\ last'.res = LedgerSum(ledger', last'.user, Len(ledger'))
          /\ last'.res = LedgerSum(ledger, last'.user, Len(ledger)) + last'.arg]_vars

C13_Witness ==
    /\ last.op = "add_coins" /\ last.ok /\ last.user = "u2" /\ last.arg = 20
    /\ Len(ledger) = 5 /\ last.res = 1080 + 5 + 20

\* C14: the coin value of a monster lies in [5, 2000] for every pair of digest
\* bytes, evaluating it reads and writes no state, and evaluating it again for
\* the same monster gives the same value.
C14_CoinValueInRange ==
    [][last'.op = "coins" =>
          /\ last'.res >= 5 /\ last'.res <= 2000
          /\ UNCHANGED <<conns, statuses, nStatus, battles, mnstrs, logs, paid, users,
                         ledger, gameData>>
          /\ (last.op = "coins" /\ last.mnstr = last'.mnstr) => last'.res = last.res]_vars

C14_Witness ==
    /\ last.op = "coins" /\ last.mnstr = "m1"
    /\ mnstrs["m1"].qr_coins_byte = 200 /\ mnstrs["m1"].qr_multiplier_byte = 90
    /\ last.res = 5

\* C15: applying XP never decreases a user's level, and applying 0 XP changes
\* neither level nor points.
C15_XpNeverLowersLevel ==
    [][last'.op = "update_xp" =>
          /\ users'[last'.user].experience_level >= users[last'.user].experience_level
          /\ last'.res >= users[last'.user].experience_level
          /\ last'.arg = 0 => users' = users]_vars

C15_Witness ==
    /\ last.op = "update_xp" /\ last.ok /\ last.arg = 0
    /\ users[last.user].experience_level = 3
    /\ users[last.user].experience_points = 100

\* the leveling procedure as stated: while the points exceed the threshold of the
\* next level, the level rises and the threshold is subtracted
RECURSIVE StatedLeveling(_, _)
StatedLeveling(level, points) ==
    IF level + 1 > LastLevelIndex \/ points <= LevelXpTable[level + 2]
    THEN [experience_level |-> level, experience_points |-> points]
    ELSE StatedLeveling(level + 1, points - LevelXpTable[level + 2])

\* C16: applying N >= 0 experience points gives the result of the stated
\* procedure, the points left over after the last level-up kept.
C16_LevelingProcedure ==
    [][(last'.op = "update_xp" /\ last'.ok) =>
          users'[last'.user] =
              StatedLeveling(users[last'.user].experience_level,
                             users[last'.user].experience_points + last'.arg)]_vars

InQueueOf(table, user_id) ==
    {r \in table : r.user_id = user_id /\ r.status = "InQueue"}

LeftEnvelope(user_id) == build_error(user_id, "Lobby", "Left", "Left")

\* C17: when a player with status InQueue disconnects (the client stream ends, a
\* close message arrives, or the stream reports an error) and the store does not
\* fail, the player's PresenceRecord is deleted and exactly one Left envelope on
\* channel Lobby is published.
C17_DisconnectLeaves ==
    [][\A u \in Users :
          (/\ InQueueOf(statuses, u) # {}
           /\ \/ StreamEnd(u)
              \/ ClientEmpty(u, "none")
              \/ StreamError(u, "none"))
          => /\ {r \in statuses' : r.user_id = u} = {}
             /\ published' = <<LeftEnvelope(u)>>]_vars

\* C18: a non-empty client message that cannot be parsed as an envelope makes the
\* handler delete the player's PresenceRecord and publish a Left envelope, and the
\* connection stays open.
C18_UnparsableForcesLeave ==
    [][\A u \in Users, kind \in UnparsableKinds :
          ClientUnparsable(u, kind, "none")
          => /\ {r \in statuses' : r.user_id = u} = {}
             /\ published' = <<LeftEnvelope(u)>>
             /\ conns' = conns]_vars

\* C19: a connection whose token is missing, unknown or expired yields exactly one
\* Error envelope to its client and ends: no PresenceRecord is created, no
\* connection loop (and so no broker subscription) is opened and nothing is
\* published.
C19_InvalidSessionRejected ==
    [][\A u \in Users, token \in Tokens \ {"valid"}, fail \in {"none", "insert"} :
          battle_queue(u, token, fail)
          => /\ Len(last'.yielded) = 1
             /\ last'.yielded[1].action = "Error"
             /\ last'.yielded[1].channel = "Lobby"
             /\ statuses' = statuses /\ nStatus' = nStatus
             /\ conns' = conns
             /\ published' = <<>>]_vars

C19_Witness ==
    /\ last.op = "Reject"
    /\ Len(last.yielded) = 1
    /\ statuses # {}
    /\ \E u \in Users : conns[u] = 0

\* C20: a connection with a valid session (the broker being reachable) creates an
\* InQueue PresenceRecord without opponent and battle for the session's user and
\* publishes Joined on Lobby, or, the creation failing, publishes an Error
\* envelope and no Joined.
C20_ConnectionJoinsQueue ==
    [][(last'.op = "Open" /\ last'.fail # "redis") =>
          \/ /\ statuses' = statuses \cup {NewStatus(nStatus', last'.user)}
             /\ nStatus' = nStatus + 1
             /\ published' = <<build_success(last'.user, "Lobby", "Joined", "Connect")>>
          \/ /\ statuses' = statuses
             /\ Len(published') = 1
             /\ published'[1].action = "Error"]_vars

\* C21: the List response to requester R holds exactly one entry for each user
\* other than R that has an InQueue PresenceRecord, and no entry for R or for a
\* player without an InQueue record.
C21_ListShowsQueue ==
    [][(last'.op = "List" /\ last'.ok) =>
          /\ {r.user_id : r \in last'.list} =
                {u \in Users \ {last'.user} : InQueueOf(statuses, u) # {}}
          /\ \A r \in last'.list :
                Cardinality({x \in last'.list : x.user_id = r.user_id}) = 1]_vars

\* C22: a processed MonsterChosen is published with data action MonsterChosen
\* while the Battle row holds one monster id, and with action and data action
\* GameStarted, both monsters' stored stats and the turn given to the challenger
\* or the opponent, exactly when the row holds both monster ids after the update.
C22_SelectionEscalates ==
    [][(last'.op = "MnstrChosen" /\ last'.ok) =>
          \E battle \in BattleOf(battles', last'.battle) :
             /\ Len(published') = 1
             /\ IF battle.challenger_mnstr_id # None /\ battle.opponent_mnstr_id # None
                THEN /\ published'[1].action = "GameStarted"
                     /\ published'[1].data_action = "GameStarted"
                     /\ published'[1].data.challenger_mnstr =
                           mnstrs[battle.challenger_mnstr_id]
                     /\ published'[1].data.opponent_mnstr =
                           mnstrs[battle.opponent_mnstr_id]
                     /\ published'[1].data.turn_user_id \in
                           {battle.challenger_id, battle.opponent_id}
                ELSE /\ published'[1].data_action = "MnstrChosen"
                     /\ published'[1].action # "GameStarted"]_vars

C22_Witness ==
    /\ last.op = "MnstrChosen" /\ last.ok
    /\ Len(published) = 1 /\ published[1].action = "GameStarted"
    /\ published[1].data.challenger_mnstr.id = "m2"

\* C23: when the challenger's and the opponent's MonsterChosen for one battle have
\* both been processed, in whatever order their store reads and writes came, the
\* Battle row holds both monster ids and a GameStarted envelope with both
\* monsters has been published.
C23_SelectionIsAtomic ==
    (\A u \in Users : inflight[u].pc = "done") =>
       /\ \A battle \in battles :
             battle.challenger_mnstr_id # None /\ battle.opponent_mnstr_id # None
       /\ \E i \in 1..Len(published) :
             /\ published[i].action = "GameStarted"
             /\ published[i].data.challenger_mnstr # NoMnstr
             /\ published[i].data.opponent_mnstr # NoMnstr

\* C24: the heartbeat task never ends because of a ping failure: a failed ping is
\* followed by a reconnection attempt and a wait, after which the task pings
\* again, for ever; a step of the task never closes a connection's event loop
\* and never produces an envelope.
C24_HeartbeatKeepsRetrying ==
    /\ [][\A u \in Users :
            /\ (ping[u] # "none") => (ping'[u] # "none")
            /\ (last'.op = "PingFail" /\ last'.user = u) => ping'[u] = "reconnect"
            /\ (last'.op \in {"PingOk", "PingFail", "Reconnect", "Wake"}) =>
                  /\ conns' = conns
                  /\ published' = <<>> /\ last'.yielded = <<>>
                  /\ statuses' = statuses /\ battles' = battles]_vars
    /\ \A u \in Users : (ping[u] = "reconnect") ~> (ping[u] = "ping")
    /\ \A u \in Users : [](ping[u] # "none" => <>(ping[u] = "ping"))

C24_Witness ==
    /\ last.op = "Wake" /\ ping[last.user] = "ping"
    /\ conns[last.user] = 1
    /\ \E u \in Users : ping[u] = "backoff"

\* C25: closing a participant's connection leaves the Battle rows as they are,
\* and a Rejoin by a participant who is back in the queue, for a battle with
\* both monsters chosen, publishes one Rejoined envelope whose GameData holds
\* both monsters as stored.
C25_BattleSurvivesDisconnect ==
    [][/\ (last'.op \in {"StreamEnd", "Left"}) => battles' = battles
       /\ (/\ last'.op = "Rejoin" /\ last'.fail = "none"
           /\ InQueueOf(statuses, last'.user) # {}) =>
             \A battle \in BattleOf(battles, last'.battle) :
                (battle.challenger_mnstr_id # None /\ battle.opponent_mnstr_id # None) =>
                   /\ battles' = battles
                   /\ Len(published') = 1
                   /\ published'[1].action = "Rejoined"
                   /\ published'[1].data.battle_id = battle.id
                   /\ published'[1].data.challenger_mnstr =
                         mnstrs[battle.challenger_mnstr_id]
                   /\ published'[1].data.opponent_mnstr =
                         mnstrs[battle.opponent_mnstr_id]]_vars

C25_Witness ==
    /\ last.op = "Rejoin" /\ last.ok
    /\ nStatus = 3
    /\ Len(logs) = 1
    /\ published[1].data.challenger_mnstr # InitMnstrs[published[1].data.challenger_mnstr.id]

\* C26: what a handler's subscription receives is yielded to the handler's client
\* unchanged, once and in the order received, the handler's own envelopes
\* included; a client's stream of broker envelopes grows only by its own
\* handler forwarding the head of its own channel.
C26_ForwardsVerbatim ==
    [][\A u \in Users :
          /\ sub'[u].got = sub'[u].out \o sub'[u].rx
          /\ (sub'[u].out # sub[u].out /\ sub'[u].out # <<>>) =>
                /\ last'.op = "Forward" /\ last'.user = u
                /\ sub[u].rx # <<>>
                /\ sub'[u].out = Append(sub[u].out, Head(sub[u].rx))
                /\ last'.yielded = <<Head(sub[u].rx)>>
          /\ (last'.op \notin {"Forward", "Deliver"} /\ ~last'.fanned) =>
                sub' = sub]_vars

C26_Witness ==
    /\ last.op = "Forward"
    /\ \E u \in Users :
          /\ u # last.user
          /\ Len(sub[last.user].out) = 2
          /\ sub[last.user].out[1].user_id = last.user
          /\ sub[last.user].out[2].user_id = u
          /\ sub[last.user].out[2].action = "Joined"

\* C27: a settlement that fails because the Battle row is not found (or because
\* the GameData has no winner) publishes one Error envelope on channel Battle and
\* leaves the store as it was: the caller's PresenceRecord is still there and no
\* battle, monster, user or wallet row has changed.
C27_FailedSettlementChangesNothing ==
    [][(/\ last'.op \in {"Escape", "Attack"} /\ ~last'.ok
        /\ \/ last'.fail = "find_battle"
           \/ (last'.fail = "none" /\ last'.winner = None /\ last'.op = "Escape")) =>
          /\ Len(published') = 1
          /\ published'[1].action = "Error" /\ published'[1].channel = "Battle"
          /\ statuses' = statuses
          /\ battles' = battles /\ mnstrs' = mnstrs
          /\ users' = users /\ ledger' = ledger]_vars

\* C28: an Attack resolves and writes back the stats stored for the battle's two
\* monsters, whatever snapshot the message carries: the combat stats in the store
\* after the step are those the turn gives from the stored rows and the dice, so
\* two Attacks that differ only in the snapshot leave the same store.
C28_AttackUsesStoredStats ==
    [][\A s \in Users, bid \in 1..MaxBattles, ad \in FaultDice, dd \in FaultDice :
         \A sent \in {gameData[bid]} \cup EditedGameData(gameData[bid]) :
           AttackWith(s, bid, sent, ad, dd, "none") =>
             \A m \in MnstrIds :
               CombatStats(mnstrs'[m]) =
                 CombatStats(AttackTurn(Rehydrated(sent, mnstrs), bid, ad, dd, "none",
                                        mnstrs).mnstrs[m])]_vars

\* C29: both generated tables are strictly increasing, XP_FOR_LEVEL[L] <
\* XP_FOR_LEVEL[L+1] for every L in 0..99: each entry the build script pushes is
\* greater than the one before it, and the vectors it builds are the tables the
\* leveling code reads.
C29_TablesStrictlyIncrease ==
    /\ \A L \in 1..(Len(generated.level) - 1) :
          generated.level[L] < generated.level[L + 1]
    /\ \A L \in 1..(Len(generated.mnstr) - 1) :
          generated.mnstr[L] < generated.mnstr[L + 1]
    /\ generated.level = SubSeq(LevelXpTable, 1, Len(generated.level))
    /\ generated.mnstr = SubSeq(MnstrXpTable, 1, Len(generated.mnstr))

C29_Witness ==
    /\ Len(generated.level) = TableLen /\ Len(generated.mnstr) = TableLen
    /\ generated.level[TableLen] = XP_FOR_LEVEL(100)
    /\ generated.mnstr[TableLen] = MNSTR_XP_FOR_LEVEL(100)

\* C30: rewards are paid at most once per battle: over every sequence of Attack
\* and Escape messages of both participants, re-sent ones and ones that already
\* carry a winner included, the rewards of a battle's settlement (four XP
\* applications, two coin credits) are applied at most once.
C30_RewardsPaidOnce == \A b \in 1..MaxBattles : paid[b] <= 1

\* C31: only a battle's two participants can change it.  An Attack, Escape or
\* MnstrChosen from a session whose user is neither challenger nor opponent of the
\* battle it names changes no battle, monster, user, wallet or log row, and an
\* Accept that creates a battle names a pair that includes the session's user.
C31_OnlyParticipantsChangeBattle ==
    [][/\ (/\ last'.op \in {"Attack", "Escape", "MnstrChosen"}
           /\ \E battle \in BattleOf(battles, last'.battle) :
                 last'.user \notin {battle.challenger_id, battle.opponent_id}) =>
            UNCHANGED <<battles, mnstrs, users, ledger, logs>>
       /\ (last'.op = "Accept" /\ battles' # battles) =>
            last'.user \in {last'.a, last'.b}]_vars

\* the battles of a user that settlement has not archived
UnsettledBattlesOf(u) ==
    {b \in battles : ~b.archived /\ u \in {b.challenger_id, b.opponent_id}}

\* C32: a player is in at most one unsettled battle at a time: Accept creates no
\* Battle row for a user whose PresenceRecord is already InBattle, so every user
\* is challenger or opponent of at most one Battle row that is not settled.
C32_OneUnsettledBattlePerPlayer ==
    \A u \in Users : Cardinality(UnsettledBattlesOf(u)) <= 1

\* C33: an Attack that aborts with an error leaves the store as it was before the
\* Attack, whichever of its three writes (log entry, attacker, defender) failed:
\* no log entry was appended and no monster's stored stats changed.
C33_AbortedAttackChangesNothing ==
    [][(/\ last'.op = "Attack" /\ ~last'.ok
        /\ last'.fail \in {"log", "attacker", "defender"}) =>
          /\ logs' = logs
          /\ mnstrs' = mnstrs]_vars

\* C34: when a completed Attack leaves the defender's health at 0 or below, the
\* battle is settled within that Attack with the attacker's owner as winner, and
\* the one envelope published for the Attack is GameEnded naming that winner; an
\* envelope with the turn swapped and no winner is not published.
C34_DefeatSettlesInSameAttack ==
    [][(/\ last'.op = "Attack" /\ last'.ok
        /\ mnstrs'[last'.defender].current_health <= 0) =>
          /\ Len(published') = 1
          /\ published'[1].action = "GameEnded"
          /\ published'[1].channel = "Battle"
          /\ published'[1].data.winner_id = Owner(last'.attacker)
          /\ paid'[last'.battle] = paid[last'.battle] + 1
          /\ \E battle \in BattleOf(battles', last'.battle) :
                battle.winner_id = Owner(last'.attacker) /\ battle.archived]_vars

C34_Witness ==
    /\ last.op = "Attack" /\ last.ok /\ last.terminal
    /\ mnstrs[last.defender].current_health = 0
    /\ Len(published) = 1 /\ published[1].action = "GameEnded"
    /\ published[1].data.winner_id = Owner(last.attacker)

\* the health the stated hit resolution gives the defender
StatedHealth(defender, attackerRoll, defenderRoll) ==
    IF attackerRoll > defenderRoll
    THEN IF attackerRoll > defender.current_defense THEN 0
         ELSE defender.current_health - attackerRoll
    ELSE defender.current_health

\* C35: hit resolution.  With attackerRoll > defenderRoll the defender's health
\* becomes 0 if attackerRoll exceeds the defender's current defense and otherwise
\* goes down by exactly attackerRoll; with attackerRoll <= defenderRoll it is
\* unchanged; the attacker's health never changes in an Attack.
C35_HitResolution ==
    [][\A s \in Users, bid \in 1..MaxBattles, ad \in FaultDice, dd \in FaultDice :
         Attack(s, bid, ad, dd, "none") =>
           LET attacker == AttackerOf(gameData[bid])
               defender == DefenderOf(gameData[bid])
               attackerRoll == ad + TruncDiv(attacker.current_speed, SpeedDivisor)
               defenderRoll == dd + TruncDiv(defender.current_intelligence, SpeedDivisor)
           IN /\ mnstrs'[defender.id].current_health =
                    StatedHealth(mnstrs[defender.id], attackerRoll, defenderRoll)
              /\ mnstrs'[attacker.id].current_health =
                    mnstrs[attacker.id].current_health]_vars

\* a hit below the defense took its roll off the health, after a hit or a miss
C35_Witness ==
    /\ last.op = "Attack" /\ last.ok /\ last.cmp = 1 /\ Len(logs) = 2
    /\ mnstrs[last.defender].current_health > 0
    /\ mnstrs[last.defender].current_health < InitMnstrs[last.defender].current_health

WithAwardOf(m, after, terminal) ==
    IF terminal
    THEN [m EXCEPT !.current_level = after.current_level,
                   !.current_experience = after.current_experience]
    ELSE m

C37_TableIndexInRange ==
    [][last'.op = "update_xp" => last'.fail # "panic"]_vars

\* the stated tiers on seeds that are not 0: the bonus and the cap of the tier
\* the multiplier seed falls in, the division by 10 below the tiers
StatedTier(coinSeed, multiplierSeed) ==
    LET whole == multiplierSeed \div 100
        bonus == CASE multiplierSeed >= 251 -> <<1000, 2000>>
                   [] multiplierSeed \in 242..250 -> <<400, 750>>
                   [] multiplierSeed \in 216..241 -> <<150, 400>>
                   [] OTHER -> <<0, 0>>
        value == IF bonus[2] > 0
                 THEN IF coinSeed * whole + bonus[1] > bonus[2] THEN bonus[2]
                      ELSE coinSeed * whole + bonus[1]
                 ELSE LET low == IF multiplierSeed < 85 THEN coinSeed ELSE coinSeed * whole
                      IN IF low <= 25 THEN low ELSE low \div 10
    IN IF value >= 5 THEN value ELSE 5

\* the values a seed stands for: itself, or some nonzero floor when it is 0
SeedValues(seed) == IF seed = 0 THEN 1..ByteMax ELSE {seed}

\* C38: for every pair of seeds in 0..255 the coin value is the one the stated
\* tiers give, with a seed of 0 replaced by a nonzero floor.
C38_CoinValueIsTieredFormula ==
    [][last'.op = "coins" =>
          \E coinSeed \in SeedValues(mnstrs[last'.mnstr].qr_coins_byte),
             multiplierSeed \in SeedValues(mnstrs[last'.mnstr].qr_multiplier_byte) :
               last'.res = StatedTier(coinSeed, multiplierSeed)]_vars

\* a coin seed of 0 in the third tier: the floor, doubled, plus 150
C38_Witness ==
    /\ last.op = "coins" /\ last.mnstr = "m1"
    /\ mnstrs["m1"].qr_coins_byte = 0 /\ mnstrs["m1"].qr_multiplier_byte = 230
    /\ last.res = 160

\* the Joined envelope a player's own handler publishes when it connects
OwnJoined(u) == build_success(u, "Lobby", "Joined", "Connect")

\* C39: a connecting player's handler has subscribed before it publishes Joined:
\* the broker gives the handler's new subscription that Joined envelope first,
\* whatever it receives begins with it, and the player's client gets it as long
\* as the connection stays open.
C39_OwnJoinedReceived ==
    /\ [][(last.op = "Open" /\ last.ok /\ last'.fanned) =>
             sub'[last.user].topic = <<OwnJoined(last.user)>>]_vars
    /\ [](\A u \in Users :
             LET received == sub[u].got \o sub[u].topic IN
             (conns[u] > 0 /\ received # <<>>) => received[1] = OwnJoined(u))
    /\ \A u \in Users :
          (last.op = "Open" /\ last.user = u /\ last.ok /\ last.fanned) ~>
             (conns[u] = 0 \/ (sub[u].out # <<>> /\ sub[u].out[1] = OwnJoined(u)))

\* the second player to connect has been given its own Joined envelope
C39_Witness ==
    /\ last.op = "Forward"
    /\ sub[last.user].out = <<OwnJoined(last.user)>>
    /\ \E u \in Users : u # last.user /\ Len(sub[u].got) = 2

\* C40: an envelope whose data action is InGameAction, Defend or Magic causes no
\* publish and no store change; an envelope with any other data action without a
\* handler is published as it came and changes no PresenceRecord, Battle,
\* monster, user or wallet.
C40_UnhandledActions ==
    [][last'.op = "Other" =>
         /\ UNCHANGED <<statuses, battles, mnstrs, users, ledger, logs, paid, gameData>>
         /\ last'.yielded = <<>>
         /\ published' = IF last'.queue.data_action \in {"InGameAction", "Defend", "Magic"}
                         THEN <<>> ELSE <<last'.queue>>]_vars

\* a Challenge sent by a player in a battle with a monster chosen went out as it came
C40_Witness ==
    /\ last.op = "Other" /\ Len(published) = 1
    /\ published[1].data_action = "Challenge" /\ published[1].user_id # last.user
    /\ battles # {} /\ \E bid \in 1..MaxBattles : gameData[bid].challenger_mnstr # NoMnstr
====
